---- MODULE Spec2Model ----
(***************************************************************************)
(* A model of the NightVision MCP server: the credential store             *)
(* (config/token.ts), the service that builds commands and requests        *)
(* (NightVisionService), the tool handlers registered with the MCP server   *)
(* (tools/*.ts) and the bootstrap (main).                                   *)
(*                                                                         *)
(* A string is a sequence of symbols.  A symbol is a one-character string  *)
(* (" ", a tab, a line break, "x", ...) or an opaque word without          *)
(* whitespace ("nightvision", "--token").  A nullable string is a record   *)
(* [has, val]: Null is JavaScript's null/undefined.                         *)
(***************************************************************************)
EXTENDS Integers, Sequences, FiniteSets, TLC

\* ------------------------------------------------------------------ bounds
MaxInFlight == 1
MaxLaunches == 1
MaxCallbacks == 1

\* ------------------------------------------------------- nullable strings
Null == [has |-> FALSE, val |-> << >>]

Some(s) == [has |-> TRUE, val |-> s]

\* JavaScript truthiness of a string | null: neither null nor ''
Truthy(o) == o.has /\ o.val # << >>

Whitespace == {" ", "\t", "\n"}

RECURSIVE trimStart(_)
trimStart(s) ==
  IF s # << >> /\ Head(s) \in Whitespace THEN trimStart(Tail(s)) ELSE s

RECURSIVE trimEnd(_)
trimEnd(s) ==
  IF s # << >> /\ s[Len(s)] \in Whitespace
    THEN trimEnd(SubSeq(s, 1, Len(s) - 1))
    ELSE s

\* String.prototype.trim
trim(s) == trimEnd(trimStart(s))

\* --------------------------------------------------------- config/token.ts
\* file is the content of TOKEN_FILE (Null: the file does not exist); ok is
\* whether the file system calls succeed (a failure is caught and logged).
loadToken(file, ok) ==
  IF file.has /\ ok THEN Some(trim(file.val)) ELSE Null

\* a save that writes nothing
saveTokenSkipped(file, t, ok) == file

saveToken(file, t, ok) ==
  IF ok THEN Some(t) ELSE file

\* a clear that leaves the file where it is
clearTokenKept(file, ok) == file

clearToken(file, ok) ==
  IF file.has /\ ok THEN Null ELSE file

\* ------------------------------------------------------------------ state
VARIABLES
  boot,       \* position of main(): "probe", "installed", "missing",
              \* "verify", "connect", "running", "exit(1)"
  token,      \* NightVisionService.token
  tokenFile,  \* content of ~/.nightvision/token
  inv,        \* the tool invocations in flight, one record per slot
  launches,   \* the background scan launches of start-scan
  callbacks,  \* download-traffic prompts whose onResponse may still be called
  fsWritable, \* whether ~/.nightvision can be written (fixed for a run)
  fn          \* the last direct call of a service function and its result

vars == <<boot, token, tokenFile, inv, launches, callbacks, fsWritable, fn>>

\* no service function has been called directly
NoCall == [op |-> "none"]

Slots == 1..MaxInFlight

LaunchIds == 1..MaxLaunches

\* ------------------------------------------------------------ tool inputs
Tools ==
  {"authenticate",
   "list-targets", "get-target-details", "create-target", "delete-target",
   "start-scan", "list-scans", "get-scan-status", "get-scan-checks",
   "get-scan-paths",
   "discover-api", "discover-api-with-path",
   "create-nuclei-template", "upload-nuclei-template",
   "list-nuclei-templates",
   "list-projects", "get-project-details",
   "record-traffic", "list-traffic", "download-traffic"}

\* The arguments of a call, reduced to what the handlers branch on.  A
\* BOOLEAN field says whether the parameter was supplied; valid says whether
\* the remaining required parameters pass the handler's own validation and
\* content whether the template file holds the 'id:' and 'info:' markers.
NoArgs ==
  [token |-> Null, create_new |-> FALSE, project |-> FALSE,
   scan_id |-> FALSE, target_name |-> FALSE, downloadPath |-> FALSE,
   valid |-> TRUE, content |-> TRUE]

TokenArgs == {Null, Some(<< >>), Some(<<"a">>)}

ArgsOf(tool) ==
  CASE tool = "authenticate" ->
         {[NoArgs EXCEPT !.token = t] : t \in TokenArgs}
           \cup {[NoArgs EXCEPT !.create_new = TRUE]}
    [] tool \in {"start-scan", "create-target"} ->
         {[NoArgs EXCEPT !.project = p] : p \in BOOLEAN}
    [] tool = "get-scan-status" ->
         {[NoArgs EXCEPT !.scan_id = s, !.target_name = n] :
            s \in BOOLEAN, n \in BOOLEAN}
    [] tool = "download-traffic" ->
         {[NoArgs EXCEPT !.downloadPath = d] : d \in BOOLEAN}
    [] tool = "upload-nuclei-template" ->
         {[NoArgs EXCEPT !.content = c] : c \in BOOLEAN}
           \cup {[NoArgs EXCEPT !.valid = FALSE]}
    [] tool \in {"get-scan-checks", "get-scan-paths", "discover-api-with-path",
                 "create-nuclei-template", "get-project-details"} ->
         {[NoArgs EXCEPT !.valid = v] : v \in BOOLEAN}
    [] OTHER -> {NoArgs}

\* -------------------------------------------------------------- responses
\* A response envelope: text names the message, blocks counts the content
\* blocks, isError is the error flag (absent reads as FALSE).
Resp(text, isError) == [text |-> text, isError |-> isError, blocks |-> 1]

NoResp == [text |-> "", isError |-> FALSE, blocks |-> 0]

NotAuthenticated == Resp("Not authenticated. Please use the authenticate tool", TRUE)

IdleSlot ==
  [tool |-> "none", args |-> NoArgs, pc |-> "idle", resp |-> NoResp,
   ncalls |-> 0, cred |-> FALSE, raised |-> {}, launch |-> 0, cb |-> FALSE,
   unverified |-> FALSE]

\* a background scan launch: state is "none", "scheduled" (timer queued),
\* "running" (command spawned), "logged" (settled and logged) or "rejected"
\* (settled with a rejection nobody handles); handler is the state of the
\* handler that queued it and flagged the error flag of that handler's
\* response; begunWhile is the state of the handler when the command was
\* spawned; tok is the credential in the command; outcome is how it settled;
\* held remembers the credential the service held when the launch was
\* queued (the program keeps no such copy: the field only observes)
NoLaunch ==
  [state |-> "none", handler |-> "none", flagged |-> FALSE,
   begunWhile |-> "none", tok |-> Null, outcome |-> "none", held |-> Null]

\* the outcome of an external call: it succeeded, it succeeded with an empty
\* or unusable result, or it failed (non-zero exit, non-2xx response)
Outcomes == {"ok", "empty", "fail"}

\* the messages a failed scan launch can carry, by the substrings the
\* start-scan handler looks for
LaunchOutcomes == {"ok", "Project=", "not found", "other"}

\* the initial content of the token file: none, a token, a token followed by
\* a line break
FileStates == {Null, Some(<<"a">>), Some(<<"a", "\n">>)}

NewToken == <<"n">>

\* ----------------------------------------------------- handler primitives
\* no response is waiting to be sent: a handler's return value is sent by
\* the protocol layer before any timer or I/O completion runs
Quiet == \A i \in DOMAIN inv : inv[i].pc # "returned"

\* an authenticate invocation has set the token it was given and awaits
\* its verification
Verifying(i) == inv[i].tool = "authenticate" /\ inv[i].pc = "verifyToken"

\* a handler starts: cred records whether a credential was held at that
\* time, unverified whether that credential was one whose verification an
\* authenticate invocation was still awaiting (both fields only observe)
Begin(tool, args) ==
  [IdleSlot EXCEPT !.tool = tool, !.args = args, !.cred = Truthy(token),
                   !.unverified = \E k \in DOMAIN inv : Verifying(k)]

\* return { content: [{ type: "text", text }], isError }
Return(slot, resp) == [slot EXCEPT !.pc = "returned", !.resp = resp]

\* two requests issued together and awaited as one
AwaitTwo(slot, op) == [slot EXCEPT !.pc = op, !.ncalls = @ + 2]

\* await of a subprocess or an HTTP request issued by operation op
Await(slot, op) == [slot EXCEPT !.pc = op, !.ncalls = @ + 1]

\* await of a file system call, which is neither
AwaitFs(slot, op) == [slot EXCEPT !.pc = op]

\* a handler whose credential check is missing
checkTokenSkipped(tok) == TRUE

\* if (!nightvisionService.getToken()) return <not authenticated>
checkToken(tok) == Truthy(tok)

\* a handler without its try/catch: the error leaves the handler
handlerRethrows(slot, op) ==
  [slot EXCEPT !.raised = @ \cup {op}, !.pc = "thrown"]

\* try { ... } catch (error) { return { ..., isError: true } } around a
\* handler's body: operation op threw
handlerCatch(slot, op) ==
  Return([slot EXCEPT !.raised = @ \cup {op}], Resp("Failed", TRUE))

\* the parameter checks a handler makes after the credential check
Validates(tool, args) ==
  CASE tool = "create-target" -> args.project
    [] tool = "get-scan-status" -> args.scan_id \/ args.target_name
    [] OTHER -> args.valid

\* the operation a handler calls first
FirstOp(tool, args) ==
  CASE tool \in {"list-targets", "get-target-details", "delete-target"} ->
         "listTargets"
    [] tool = "create-target" -> "createTarget"
    [] tool = "list-scans" -> "listScans"
    [] tool = "get-scan-status" ->
         IF args.scan_id THEN "getScanStatus" ELSE "listScans"
    [] tool = "get-scan-checks" -> "getScanChecks"
    [] tool = "get-scan-paths" -> "getScanPaths"
    [] tool = "discover-api-with-path" -> "discoverApi"
    [] tool = "create-nuclei-template" -> "createNucleiTemplate"
    [] tool = "upload-nuclei-template" -> "uploadNucleiTemplate"
    [] tool = "list-nuclei-templates" -> "listNucleiTemplates"
    [] tool = "list-projects" -> "executeCommand"
    [] tool = "get-project-details" -> "getProjectByName"
    [] tool = "record-traffic" -> "recordTraffic"
    [] tool = "list-traffic" -> "listTraffic"
    [] OTHER -> "downloadTraffic"

\* the tools whose handler is: credential check, parameter checks, one or
\* two operations awaited in turn, response
GuardedTools ==
  Tools \ {"authenticate", "start-scan", "discover-api", "download-traffic"}

\* ---------------------------------------------------------------- main()
\* isInstalled() settles: the version command ran, or it failed and the
\* error was caught
isInstalled ==
  /\ boot = "probe"
  /\ \E installed \in BOOLEAN :
       boot' = IF installed THEN "installed" ELSE "missing"
  /\ UNCHANGED <<token, tokenFile, inv, launches, callbacks, fsWritable, fn>>

\* a bootstrap that goes on without the binary
MainProbeContinues ==
  /\ boot \in {"installed", "missing"}
  /\ \E ok \in BOOLEAN :
       LET t == loadToken(tokenFile, ok) IN
       IF Truthy(t)
         THEN boot' = "verify" /\ token' = t
         ELSE boot' = "connect" /\ token' = token
  /\ UNCHANGED <<tokenFile, inv, launches, callbacks, fsWritable, fn>>

\* main() goes on: process.exit(1) without the binary; otherwise loadToken,
\* setToken and verifyProductionAuth, or, with no stored token, the tools
\* are registered and connectServer is called
MainProbe ==
  /\ boot \in {"installed", "missing"}
  /\ \E ok \in BOOLEAN :
       LET t == loadToken(tokenFile, ok) IN
       IF boot = "missing"
         THEN boot' = "exit(1)" /\ token' = token
         ELSE IF Truthy(t)
           THEN boot' = "verify" /\ token' = t
           ELSE boot' = "connect" /\ token' = token
  /\ UNCHANGED <<tokenFile, inv, launches, callbacks, fsWritable, fn>>

\* verifyProductionAuth() settles; the token stays either way; the tools are
\* registered and connectServer is called
MainVerified ==
  /\ boot = "verify"
  /\ boot' = "connect"
  /\ UNCHANGED <<token, tokenFile, inv, launches, callbacks, fsWritable, fn>>

\* connectServer() settles: the server runs, or the error reaches the catch
\* clause of main(), which calls process.exit(1)
MainConnected ==
  /\ boot = "connect"
  /\ \E connected \in BOOLEAN :
       boot' = IF connected THEN "running" ELSE "exit(1)"
  /\ UNCHANGED <<token, tokenFile, inv, launches, callbacks, fsWritable, fn>>

\* --------------------------------------------- the guarded tool handlers
ToolHandler(i, tool, args) ==
  /\ tool \in GuardedTools
  /\ inv' = [inv EXCEPT ![i] =
       LET s == Begin(tool, args) IN
       IF ~checkToken(token) THEN Return(s, NotAuthenticated)
       ELSE IF ~Validates(tool, args)
         THEN Return(s, Resp("Required parameter missing", TRUE))
       ELSE IF tool = "upload-nuclei-template"
         THEN AwaitFs(s, "readFile")
       ELSE Await(s, FirstOp(tool, args))]
  /\ UNCHANGED <<boot, token, tokenFile, launches, callbacks, fsWritable, fn>>

\* uploadNucleiTemplate has read the file: without the markers it throws,
\* with them it issues the upload request
UploadRead(i) ==
  /\ Quiet
  /\ inv[i].pc = "readFile"
  /\ inv' = [inv EXCEPT ![i] =
       IF inv[i].args.content
         THEN Await(@, "uploadNucleiTemplate")
         ELSE handlerCatch(@, "uploadNucleiTemplate")]
  /\ UNCHANGED <<boot, token, tokenFile, launches, callbacks, fsWritable, fn>>

\* how a guarded handler goes on when the operation it awaits settles
ToolContinue(s, o) ==
  LET op == s.pc IN
  CASE s.tool = "delete-target" /\ op = "listTargets" ->
         IF o = "fail"
           THEN Await([s EXCEPT !.raised = @ \cup {"listTargets"}], "deleteTarget")
           ELSE IF o = "empty"
             THEN Return(s, Resp("Target not found", TRUE))
             ELSE Await(s, "deleteTarget")
    [] s.tool = "get-scan-status" /\ op = "listScans" ->
         IF o = "fail" THEN handlerCatch(s, "listScans")
         ELSE IF o = "empty" THEN Return(s, Resp("No scans found", TRUE))
         ELSE Await(s, "getScanStatus")
    [] s.tool = "get-target-details" /\ o = "empty" ->
         Return(s, Resp("No target found", TRUE))
    [] s.tool = "get-project-details" /\ o = "empty" ->
         handlerCatch(s, op)
    [] OTHER ->
         IF o = "fail" THEN handlerCatch(s, op)
         ELSE Return(s, Resp("Success", FALSE))

\* a handler that drops the credential when its operation fails
ToolSettleClears(i) ==
  /\ Quiet
  /\ inv[i].tool \in GuardedTools \cup {"download-traffic"}
  /\ inv[i].pc \notin {"idle", "returned", "thrown", "readFile", "access"}
  /\ \E o \in Outcomes :
       /\ inv' = [inv EXCEPT ![i] = ToolContinue(@, o)]
       /\ token' = IF o = "fail" THEN Null ELSE token
  /\ UNCHANGED <<boot, tokenFile, launches, callbacks, fsWritable, fn>>

ToolSettle(i) ==
  /\ Quiet
  /\ inv[i].tool \in GuardedTools \cup {"download-traffic"}
  /\ inv[i].pc \notin {"idle", "returned", "thrown", "readFile", "access"}
  /\ \E o \in Outcomes : inv' = [inv EXCEPT ![i] = ToolContinue(@, o)]
  /\ UNCHANGED <<boot, token, tokenFile, launches, callbacks, fsWritable, fn>>

\* ------------------------------------------------------------ discover-api
\* a first phase that starts the discovery itself
DiscoverApiHandlerCalls(i, args) ==
  /\ inv' = [inv EXCEPT ![i] = Await(Begin("discover-api", args), "discoverApi")]
  /\ UNCHANGED <<boot, token, tokenFile, launches, callbacks, fsWritable, fn>>

\* returns the prompt for the project directory
DiscoverApiHandler(i, args) ==
  /\ inv' = [inv EXCEPT ![i] =
       Return(Begin("discover-api", args), Resp("Prompt: project directory", FALSE))]
  /\ UNCHANGED <<boot, token, tokenFile, launches, callbacks, fsWritable, fn>>

\* -------------------------------------------------------- download-traffic
DownloadTrafficHandler(i, args) ==
  LET s == Begin("download-traffic", args) IN
  /\ IF ~checkToken(token)
       THEN /\ inv' = [inv EXCEPT ![i] = Return(s, NotAuthenticated)]
            /\ callbacks' = callbacks
       ELSE IF args.downloadPath
         THEN /\ inv' = [inv EXCEPT ![i] = AwaitFs(s, "access")]
              /\ callbacks' = callbacks
         ELSE /\ callbacks < MaxCallbacks
              /\ inv' = [inv EXCEPT ![i] =
                   Return(s, Resp("Prompt: downloadPath", FALSE))]
              /\ callbacks' = callbacks + 1
  /\ UNCHANGED <<boot, token, tokenFile, launches, fsWritable, fn>>

\* the protocol layer calls turnAction.onResponse with the caller's answer
OnResponse(i) ==
  /\ Quiet
  /\ boot = "running"
  /\ inv[i].pc = "idle"
  /\ callbacks > 0
  /\ callbacks' = callbacks - 1
  /\ inv' = [inv EXCEPT ![i] =
       AwaitFs([Begin("download-traffic",
                      [NoArgs EXCEPT !.downloadPath = TRUE])
                  EXCEPT !.cb = TRUE], "access")]
  /\ UNCHANGED <<boot, token, tokenFile, launches, fsWritable, fn>>

\* fs.access(downloadPath) settles (a failure selects the temp directory);
\* downloadTraffic is called
DownloadAccess(i) ==
  /\ Quiet
  /\ inv[i].pc = "access"
  /\ inv' = [inv EXCEPT ![i] = Await(@, "downloadTraffic")]
  /\ UNCHANGED <<boot, token, tokenFile, launches, callbacks, fsWritable, fn>>

\* ------------------------------------------------------------ authenticate
\* a handler that sets the token it is given without saving it
AuthenticateHandlerSetsOnly(i, args) ==
  LET s == Begin("authenticate", args) IN
  IF args.create_new
    THEN /\ inv' = [inv EXCEPT ![i] = Await(s, "login")]
         /\ UNCHANGED <<token, tokenFile>>
    ELSE IF Truthy(args.token)
      THEN /\ token' = args.token
           /\ tokenFile' = tokenFile
           /\ inv' = [inv EXCEPT ![i] = Await(s, "verifyToken")]
      ELSE /\ inv' = [inv EXCEPT ![i] =
                IF Truthy(token)
                  THEN Await(s, "verifyStatus")
                  ELSE Return(s, Resp("Not authenticated. Please provide a token", FALSE))]
           /\ UNCHANGED <<token, tokenFile>>

AuthenticateHandler(i, args) ==
  LET s == Begin("authenticate", args) IN
  IF args.create_new
    THEN \* createToken: nightvision login is spawned
         /\ inv' = [inv EXCEPT ![i] = Await(s, "login")]
         /\ UNCHANGED <<token, tokenFile>>
    ELSE IF Truthy(args.token)
      THEN \* setToken(token); saveToken(token); verifyProductionAuth()
           /\ token' = args.token
           /\ tokenFile' = saveToken(tokenFile, args.token.val, fsWritable)
           /\ inv' = [inv EXCEPT ![i] = Await(s, "verifyToken")]
      ELSE \* status check
           /\ inv' = [inv EXCEPT ![i] =
                IF Truthy(token)
                  THEN Await(s, "verifyStatus")
                  ELSE Return(s, Resp("Not authenticated. Please provide a token", FALSE))]
           /\ UNCHANGED <<token, tokenFile>>

AuthenticateCall(i, args) ==
  /\ AuthenticateHandler(i, args)
  /\ UNCHANGED <<boot, launches, callbacks, fsWritable, fn>>

\* the call the authenticate handler awaits settles with outcome o
AuthenticateContinue(i, o) ==
  LET s == inv[i] IN
  CASE s.pc = "login" ->
         \* a login error is logged; token create runs with skipToken
         /\ inv' = [inv EXCEPT ![i] = Await(s, "createToken")]
         /\ UNCHANGED <<token, tokenFile>>
    [] s.pc = "createToken" ->
         IF o = "ok"
           THEN /\ token' = Some(NewToken)
                /\ tokenFile' = saveToken(tokenFile, NewToken, fsWritable)
                /\ inv' = [inv EXCEPT ![i] = Await(s, "verifyNew")]
           ELSE \* the command failed or printed no token: createToken throws
                /\ inv' = [inv EXCEPT ![i] = handlerCatch(s, "createToken")]
                /\ UNCHANGED <<token, tokenFile>>
    [] s.pc = "verifyNew" ->
         /\ inv' = [inv EXCEPT ![i] =
              IF o = "ok"
                THEN Return(s, Resp("Successfully created and saved a new authentication token", FALSE))
                ELSE Return(s, Resp("Created a new token but it couldn't be validated", TRUE))]
         /\ UNCHANGED <<token, tokenFile>>
    [] s.pc = "verifyToken" ->
         IF o = "ok"
           THEN /\ inv' = [inv EXCEPT ![i] =
                     Return(s, Resp("Successfully authenticated", FALSE))]
                /\ UNCHANGED <<token, tokenFile>>
           ELSE \* setToken(null); clearToken()
                /\ token' = Null
                /\ tokenFile' = clearToken(tokenFile, fsWritable)
                /\ inv' = [inv EXCEPT ![i] =
                     Return(s, Resp("The provided token is not valid", TRUE))]
    [] OTHER ->
         /\ inv' = [inv EXCEPT ![i] =
              IF o = "ok"
                THEN Return(s, Resp("Authenticated successfully", FALSE))
                ELSE Return(s, Resp("You have a token but it appears to be invalid or expired", TRUE))]
         /\ UNCHANGED <<token, tokenFile>>

AuthenticateSettle(i) ==
  /\ Quiet
  /\ inv[i].tool = "authenticate"
  /\ inv[i].pc \in {"login", "createToken", "verifyNew", "verifyToken", "verifyStatus"}
  /\ \E o \in Outcomes : AuthenticateContinue(i, o)
  /\ UNCHANGED <<boot, launches, callbacks, fsWritable, fn>>

\* -------------------------------------------------------------- start-scan
ScanInitiated == Resp("Scan initiated", FALSE)

\* startScan called in the handler itself: the command is spawned at once
startScanInline(ls, l) ==
  [ls EXCEPT ![l] = [NoLaunch EXCEPT !.state = "running",
                                     !.handler = "running",
                                     !.begunWhile = "running",
                                     !.tok = token,
                                     !.held = token]]

\* setTimeout(() => nightvisionService.startScan(...), 0): the launch is
\* queued while its handler is still running
setTimeoutLaunch(ls, l) ==
  [ls EXCEPT ![l] = [NoLaunch EXCEPT !.state = "scheduled",
                                     !.handler = "running",
                                     !.held = token]]

\* the handler that queued launch l returns resp
handlerReturns(ls, l, resp) ==
  [ls EXCEPT ![l].handler = "returned", ![l].flagged = resp.isError]

\* the catch clauses around the dispatch, by the substring of the message
\* (nothing in the try block throws, so no behaviour reaches them)
startScanCatch(msg) ==
  CASE msg = "Project=" -> Resp("Project error", TRUE)
    [] msg = "not found" -> Resp("Target not found", TRUE)
    [] OTHER -> Resp("Failed to start scan", TRUE)

\* a handler that awaits startScan before it answers
StartScanHandlerAwaits(i, args) ==
  LET s == Begin("start-scan", args) IN
  /\ inv' = [inv EXCEPT ![i] =
       IF ~checkToken(token) THEN Return(s, NotAuthenticated)
       ELSE IF ~args.project
         THEN Return(s, Resp("You must specify a project", TRUE))
       ELSE Await(s, "startScan")]
  /\ UNCHANGED <<boot, token, tokenFile, launches, callbacks, fsWritable, fn>>

StartScanHandler(i, args) ==
  LET s == Begin("start-scan", args) IN
  /\ IF ~checkToken(token)
       THEN /\ inv' = [inv EXCEPT ![i] = Return(s, NotAuthenticated)]
            /\ launches' = launches
       ELSE IF ~args.project
         THEN /\ inv' = [inv EXCEPT ![i] =
                   Return(s, Resp("You must specify a project", TRUE))]
              /\ launches' = launches
         ELSE \E l \in LaunchIds :
                /\ launches[l].state \in {"none", "logged"}
                /\ \A k \in 1..(l - 1) :
                     launches[k].state \notin {"none", "logged"}
                /\ launches' =
                     handlerReturns(setTimeoutLaunch(launches, l), l,
                                    ScanInitiated)
                /\ inv' = [inv EXCEPT ![i] =
                     Return([s EXCEPT !.launch = l], ScanInitiated)]
  /\ UNCHANGED <<boot, token, tokenFile, callbacks, fsWritable, fn>>

\* a timer that is cleared before it fires: the launch is dropped
TimerFireCleared(l) ==
  /\ Quiet
  /\ launches[l].state = "scheduled"
  /\ launches' = [launches EXCEPT ![l] = NoLaunch]
  /\ UNCHANGED <<boot, token, tokenFile, inv, callbacks, fsWritable, fn>>

\* the timer fires: startScan builds its command with the credential held
\* now and spawns it
TimerFire(l) ==
  /\ Quiet
  /\ launches[l].state = "scheduled"
  /\ launches' = [launches EXCEPT ![l] =
       [@ EXCEPT !.state = "running", !.begunWhile = launches[l].handler,
                 !.tok = token]]
  /\ UNCHANGED <<boot, token, tokenFile, inv, callbacks, fsWritable, fn>>

\* .then(result => log).catch(err => log)
backgroundCatch(launch, o) ==
  [launch EXCEPT !.state = "logged", !.outcome = o, !.tok = Null,
                 !.held = Null]

\* a launch whose outcome is answered to the caller: the handler's response
\* is produced when the launch settles
returnOutcome(invs, l, o) ==
  [invs EXCEPT ![1] =
    Return([IdleSlot EXCEPT !.tool = "start-scan", !.cred = TRUE,
                            !.launch = l],
           IF o = "ok" THEN ScanInitiated ELSE startScanCatch(o))]

\* both callbacks of the chain write to the log and return nothing: no
\* invocation learns the outcome
logOutcome(invs, l, o) == invs

LaunchSettle(l) ==
  /\ Quiet
  /\ launches[l].state = "running"
  /\ \E o \in LaunchOutcomes :
       /\ launches' = [launches EXCEPT ![l] = backgroundCatch(@, o)]
       /\ inv' = logOutcome(inv, l, o)
  /\ UNCHANGED <<boot, token, tokenFile, callbacks, fsWritable, fn>>

\* ------------------------------------------------------- the protocol layer
\* a tool call arrives and its handler runs up to its first await
Invoke(i) ==
  /\ boot = "running"
  /\ Quiet
  /\ inv[i].pc = "idle"
  /\ \A j \in Slots : j < i => inv[j].pc # "idle"
  /\ \E tool \in Tools : \E args \in ArgsOf(tool) :
       \/ tool = "authenticate" /\ AuthenticateCall(i, args)
       \/ tool = "start-scan" /\ StartScanHandler(i, args)
       \/ tool = "discover-api" /\ DiscoverApiHandler(i, args)
       \/ tool = "download-traffic" /\ DownloadTrafficHandler(i, args)
       \/ ToolHandler(i, tool, args)

\* the response of a returned handler is sent
Ack(i) ==
  /\ inv[i].pc = "returned"
  /\ inv' = [inv EXCEPT ![i] = IdleSlot]
  /\ UNCHANGED <<boot, token, tokenFile, launches, callbacks, fsWritable, fn>>

Init ==
  /\ boot = "probe"
  /\ token = Null
  /\ tokenFile \in FileStates
  /\ inv = [i \in Slots |-> IdleSlot]
  /\ launches = [l \in LaunchIds |-> NoLaunch]
  /\ callbacks = 0
  /\ fsWritable \in BOOLEAN
  /\ fn = NoCall

Next ==
  \/ isInstalled
  \/ MainProbe
  \/ MainVerified
  \/ MainConnected
  \/ \E i \in Slots : Invoke(i)
  \/ \E i \in Slots : ToolSettle(i)
  \/ \E i \in Slots : UploadRead(i)
  \/ \E i \in Slots : DownloadAccess(i)
  \/ \E i \in Slots : OnResponse(i)
  \/ \E i \in Slots : AuthenticateSettle(i)
  \/ \E l \in LaunchIds : TimerFire(l)
  \/ \E l \in LaunchIds : LaunchSettle(l)
  \/ \E i \in Slots : Ack(i)

Spec == Init /\ [][Next]_vars

\* The event loop: a response that a handler has returned is sent, and a
\* timer of 0 ms that has been queued is run in the timers phase of a later
\* iteration of the loop, however many tool calls arrive in between.
SpecFair ==
  /\ Spec
  /\ \A i \in Slots : WF_vars(Ack(i))
  /\ \A l \in LaunchIds : SF_vars(TimerFire(l))

\* ---------------------------------------- authenticate beside another tool
\* The server after bootstrap, serving authenticate and one tool that checks
\* the credential, with up to MaxAuthInFlight invocations in flight.
MaxAuthInFlight == 2

AuthSlots == 1..MaxAuthInFlight

AuthTools == {"authenticate", "list-scans"}

InitAuth ==
  /\ boot = "running"
  /\ tokenFile \in FileStates
  /\ \E ok \in BOOLEAN :
       LET t == loadToken(tokenFile, ok) IN
       token = IF Truthy(t) THEN t ELSE Null
  /\ inv = [i \in AuthSlots |-> IdleSlot]
  /\ launches = [l \in LaunchIds |-> NoLaunch]
  /\ callbacks = 0
  /\ fsWritable \in BOOLEAN
  /\ fn = NoCall

InvokeAuth(i) ==
  /\ Quiet
  /\ inv[i].pc = "idle"
  /\ \A j \in AuthSlots : j < i => inv[j].pc # "idle"
  /\ \E tool \in AuthTools : \E args \in ArgsOf(tool) :
       \/ tool = "authenticate" /\ AuthenticateCall(i, args)
       \/ ToolHandler(i, tool, args)

NextAuth ==
  \/ \E i \in AuthSlots : InvokeAuth(i)
  \/ \E i \in AuthSlots : ToolSettle(i)
  \/ \E i \in AuthSlots : AuthenticateSettle(i)
  \/ \E i \in AuthSlots : Ack(i)

SpecAuth == InitAuth /\ [][NextAuth]_vars

\* ------------------------------------------- service functions on their own
\* The specifications below call one service function directly on inputs
\* drawn from bounded sets; the server itself is not started.
MaxTokenLen == 2
MaxCols == 2
MaxRows == 2
MaxStrLen == 2
MaxArgs == 2
MaxArgLen == 2
MaxPatterns == 1
MaxList == 2
MaxResults == 2
MaxWords == 2
MaxScans == 11
MaxTime == 2

server == <<boot, inv, launches, callbacks>>

Dormant ==
  /\ boot = "probe"
  /\ inv = [i \in Slots |-> IdleSlot]
  /\ launches = [l \in LaunchIds |-> NoLaunch]
  /\ callbacks = 0

\* the strings of at most n symbols of chars
Strings(chars, n) == UNION {[1..k -> chars] : k \in 0..n}

Repeat(c, n) == [k \in 1..n |-> c]

Max(S) == CHOOSE m \in S : \A x \in S : x <= m

Min(S) == CHOOSE m \in S : \A x \in S : m <= x

\* Array.prototype.join
RECURSIVE join(_, _)
join(parts, sep) ==
  IF Len(parts) = 0 THEN << >>
  ELSE IF Len(parts) = 1 THEN parts[1]
  ELSE parts[1] \o sep \o join(Tail(parts), sep)

\* ---- config/token.ts: saveToken, clearToken, loadToken
TokenChars == {"a", " ", "\n"}

InitStore ==
  /\ Dormant
  /\ token = Null
  /\ tokenFile \in FileStates
  /\ fsWritable \in BOOLEAN
  /\ fn = [op |-> "none", arg |-> << >>, wrote |-> FALSE,
           loaded |-> FALSE, read |-> FALSE, out |-> Null]

StoreSave(t) ==
  /\ tokenFile' = saveToken(tokenFile, t, fsWritable)
  /\ fn' = [op |-> "save", arg |-> t, wrote |-> fsWritable,
            loaded |-> FALSE, read |-> FALSE, out |-> Null]
  /\ UNCHANGED <<server, token, fsWritable>>

StoreClear ==
  /\ tokenFile' = clearToken(tokenFile, fsWritable)
  /\ fn' = [op |-> "clear", arg |-> << >>, wrote |-> fsWritable,
            loaded |-> FALSE, read |-> FALSE, out |-> Null]
  /\ UNCHANGED <<server, token, fsWritable>>

StoreLoad ==
  /\ \E ok \in BOOLEAN :
       fn' = [fn EXCEPT !.loaded = TRUE, !.read = ok,
                        !.out = loadToken(tokenFile, ok)]
  /\ UNCHANGED <<server, token, tokenFile, fsWritable>>

NextStore ==
  \/ \E t \in Strings(TokenChars, MaxTokenLen) : StoreSave(t)
  \/ StoreClear
  \/ StoreLoad

SpecStore == InitStore /\ [][NextStore]_vars

\* ---- NightVisionService.formatAsTable
\* String.prototype.padEnd
padEnd(str, w) ==
  IF Len(str) >= w THEN str ELSE str \o Repeat(" ", w - Len(str))

NoData ==
  <<"N", "o", " ", "d", "a", "t", "a", " ", "t", "o", " ",
    "d", "i", "s", "p", "l", "a", "y">>

maxDataLength(rows, i) == Max({Len(rows[r][i]) : r \in 1..Len(rows)})

\* column widths taken from the cells alone
colWidthsOfData(headers, rows) ==
  [i \in 1..Len(headers) |-> maxDataLength(rows, i)]

colWidths(headers, rows) ==
  [i \in 1..Len(headers) |-> Max({Len(headers[i]), maxDataLength(rows, i)})]

formatAsTable(headers, rows) ==
  IF Len(headers) = 0 \/ Len(rows) = 0 THEN NoData
  ELSE
    LET w == colWidths(headers, rows)
        headerRow ==
          join([i \in 1..Len(headers) |-> padEnd(headers[i], w[i])],
               <<" ", "|", " ">>)
        separatorRow ==
          join([i \in 1..Len(w) |-> Repeat("-", w[i])], <<"-", "+", "-">>)
        dataRows ==
          [r \in 1..Len(rows) |->
            join([i \in 1..Len(rows[r]) |-> padEnd(rows[r][i], w[i])],
                 <<" ", "|", " ">>)]
    IN join(<<headerRow, separatorRow>> \o dataRows, <<"\n">>)

\* a short header and one longer than every cell
HeaderValues == {<<"h">>, Repeat("h", MaxStrLen + 1)}

\* an empty cell, a cell of the greatest length, a cell with a line break
CellValues == {<< >>, Repeat("x", MaxStrLen), <<"x", "\n">>}

InitTable ==
  /\ Dormant
  /\ token = Null
  /\ tokenFile = Null
  /\ fsWritable = TRUE
  /\ \E h \in 0..MaxCols :
       \E headers \in [1..h -> HeaderValues] :
         fn = [op |-> "input", headers |-> headers, rows |-> << >>,
               out |-> << >>]

TableAddRow ==
  /\ Len(fn.rows) < MaxRows
  /\ \E row \in [1..Len(fn.headers) -> CellValues] :
       fn' = [fn EXCEPT !.op = "input", !.rows = Append(@, row),
                        !.out = << >>]
  /\ UNCHANGED <<server, token, tokenFile, fsWritable>>

TableFormat ==
  /\ fn.op = "input"
  /\ fn' = [fn EXCEPT !.op = "formatAsTable",
                      !.out = formatAsTable(fn.headers, fn.rows)]
  /\ UNCHANGED <<server, token, tokenFile, fsWritable>>

NextTable == TableAddRow \/ TableFormat

SpecTable == InitTable /\ [][NextTable]_vars

\* ---- NightVisionService.executeCommand: the command line
ArgChars == {"a", " ", "\t"}

Formats == {"text", "json", "table"}

CURRENT_API_URL == <<"https://api.nightvision.net/api/v1/">>

includes(str, c) == \E k \in 1..Len(str) : str[k] = c

\* an argument list joined as it is
quoteArgNever(arg) == arg

quoteArg(arg) ==
  IF includes(arg, " ") THEN <<"\"">> \o arg \o <<"\"">> ELSE arg

\* the credential flag added whenever a credential is held
commandArgsNeverSkips(args, format, skipToken, tok) ==
  <<<<"nightvision">>>>
    \o args
    \o (IF format # "" THEN <<<<"-F">>, <<format>>>> ELSE << >>)
    \o <<<<"--api-url">>, CURRENT_API_URL>>
    \o (IF Truthy(tok) THEN <<<<"--token">>, tok.val>> ELSE << >>)

\* ['nightvision', ...commandArgs]
commandArgs(args, format, skipToken, tok) ==
  <<<<"nightvision">>>>
    \o args
    \o (IF format # "" THEN <<<<"-F">>, <<format>>>> ELSE << >>)
    \o <<<<"--api-url">>, CURRENT_API_URL>>
    \o (IF Truthy(tok) /\ ~skipToken THEN <<<<"--token">>, tok.val>>
        ELSE << >>)

command(argv) == join([k \in 1..Len(argv) |-> quoteArg(argv[k])], <<" ">>)

InitCmd ==
  /\ Dormant
  /\ token \in {Null, Some(<< >>), Some(<<"a">>), Some(<<"a", " ">>)}
  /\ tokenFile = Null
  /\ fsWritable = TRUE
  /\ \E format \in Formats, skipToken \in BOOLEAN :
       fn = [op |-> "input", args |-> << >>, format |-> format,
             skipToken |-> skipToken, argv |-> << >>, command |-> << >>]

CmdAddArg ==
  /\ Len(fn.args) < MaxArgs
  /\ \E arg \in Strings(ArgChars, MaxArgLen) :
       fn' = [fn EXCEPT !.op = "input", !.args = Append(@, arg),
                        !.argv = << >>, !.command = << >>]
  /\ UNCHANGED <<server, token, tokenFile, fsWritable>>

ExecuteCommand ==
  /\ fn.op = "input"
  /\ LET argv == commandArgs(fn.args, fn.format, fn.skipToken, token) IN
       fn' = [fn EXCEPT !.op = "executeCommand", !.argv = argv,
                        !.command = command(argv)]
  /\ UNCHANGED <<server, token, tokenFile, fsWritable>>

\* ---- NightVisionService.createTarget
\* the options of createTarget: project is required, the others may be
\* absent; exclude_url and exclude_xpath are lists of patterns
NoOptions ==
  [project |-> <<"p1">>, project_id |-> Null, type |-> Null,
   spec_file |-> Null, spec_url |-> Null,
   exclude_url |-> << >>, exclude_xpath |-> << >>]

Patterns == UNION {[1..k -> {<<"x">>}] : k \in 0..MaxPatterns}

TargetOptions ==
  {[NoOptions EXCEPT !.project_id = pid, !.type = t, !.spec_file = f,
                     !.spec_url = u, !.exclude_url = eu,
                     !.exclude_xpath = ex] :
     pid \in {Null, Some(<< >>), Some(<<"7">>)},
     t \in {Null, Some(<<"API">>)},
     f \in {Null, Some(<<"f.yml">>)},
     u \in {Null, Some(<<"http://s">>)},
     eu \in Patterns, ex \in Patterns}

\* args.push(flag, value) when value is truthy
pushIf(o, flag) == IF Truthy(o) THEN <<flag, o.val>> ELSE << >>

\* for (const pattern of list) args.push(flag, pattern)
RECURSIVE pushEach(_, _)
pushEach(list, flag) ==
  IF Len(list) = 0 THEN << >>
  ELSE <<flag, Head(list)>> \o pushEach(Tail(list), flag)

\* the project flag pushed ahead of the name and the URL
createTargetArgsProjectFirst(name, url, options) ==
  <<<<"target">>, <<"create">>, <<"-p">>, options.project, name, url>>
    \o pushIf(options.project_id, <<"-P">>)
    \o pushIf(options.type, <<"-t">>)
    \o pushIf(options.spec_file, <<"-f">>)
    \o pushIf(options.spec_url, <<"-s">>)
    \o pushEach(options.exclude_url, <<"--exclude-url">>)
    \o pushEach(options.exclude_xpath, <<"--exclude-xpath">>)

createTargetArgs(name, url, options) ==
  <<<<"target">>, <<"create">>, name, url, <<"-p">>, options.project>>
    \o pushIf(options.project_id, <<"-P">>)
    \o pushIf(options.type, <<"-t">>)
    \o pushIf(options.spec_file, <<"-f">>)
    \o pushIf(options.spec_url, <<"-s">>)
    \o pushEach(options.exclude_url, <<"--exclude-url">>)
    \o pushEach(options.exclude_xpath, <<"--exclude-xpath">>)

TargetNames == {<<"t1">>, <<"t", " ", "1">>}

\* createTarget(name, url, options, format): executeCommand(args, format)
CreateTarget ==
  /\ fn.op = "input"
  /\ fn.args = << >>
  /\ \E name \in TargetNames, options \in TargetOptions :
       LET url == <<"http://x">>
           args == createTargetArgs(name, url, options)
           argv == commandArgs(args, fn.format, FALSE, token)
       IN fn' = [op |-> "createTarget", args |-> args, format |-> fn.format,
                 skipToken |-> FALSE, argv |-> argv,
                 command |-> command(argv),
                 name |-> name, url |-> url, options |-> options]
  /\ UNCHANGED <<server, token, tokenFile, fsWritable>>

\* setToken before the command is built
CmdSetToken ==
  /\ fn.op = "input"
  /\ \E t \in {Null, Some(<<"a">>), Some(<<"a", " ">>)} :
       token' = t /\ token' # token
  /\ UNCHANGED <<server, tokenFile, fsWritable, fn>>

NextCmd == CmdAddArg \/ ExecuteCommand \/ CreateTarget \/ CmdSetToken

SpecCmd == InitCmd /\ [][NextCmd]_vars

\* ---- the query parameters of listScans, getScanChecks and getScanPaths
\* An optional number is a record [has, val]; 0 is falsy.  params is the
\* mapping handed to the HTTP client: a function from the keys present to
\* their values; a value that is a list is sent one entry per element.
NoNumber == [has |-> FALSE, val |-> 0]

Number(n) == [has |-> TRUE, val |-> n]

TruthyNumber(o) == o.has /\ o.val # 0

NoParams == [k \in {} |-> 0]

\* if (value) params[key] = value
setIf(o, key) == IF Truthy(o) THEN key :> o.val ELSE NoParams

setIfNumber(o, key) == IF TruthyNumber(o) THEN key :> o.val ELSE NoParams

OptionalStrings == {Null, Some(<< >>), Some(<<"v">>)}

OptionalNumbers == {NoNumber, Number(0), Number(5)}

Lists(values) == UNION {[1..k -> values] : k \in 0..MaxList}

\* status sent whenever given, 'all' included
listScansParamsAll(options) ==
  setIf(options.target, "target_name")
    @@ setIf(options.project, "project_name")
    @@ setIf(options.project_id, "project_id")
    @@ setIfNumber(options.limit, "limit")
    @@ setIf(options.status, "status")

listScansParams(options) ==
  setIf(options.target, "target_name")
    @@ setIf(options.project, "project_name")
    @@ setIf(options.project_id, "project_id")
    @@ setIfNumber(options.limit, "limit")
    @@ (IF Truthy(options.status) /\ options.status.val # <<"all">>
          THEN "status" :> options.status.val ELSE NoParams)

DEFAULT_PAGE_SIZE == 100

\* the severities joined into one value
listParamJoined(list) == <<join(list, <<",">>)>>

\* params.severity = options.severity: the list itself
listParam(list) == list

getScanChecksParams(options) ==
  setIfNumber(options.page, "page")
    @@ ("page_size" :> (IF TruthyNumber(options.page_size)
                          THEN options.page_size.val
                          ELSE DEFAULT_PAGE_SIZE))
    @@ setIf(options.name, "name")
    @@ setIf(options.check_kind, "check_kind")
    @@ ("severity" :> listParam(options.severity))
    @@ ("status" :> listParam(options.status))

getScanPathsParams(options) ==
  setIfNumber(options.page, "page")
    @@ setIfNumber(options.page_size, "page_size")
    @@ setIf(options.filter, "filter")

InitQuery ==
  /\ Dormant
  /\ token = Null
  /\ tokenFile = Null
  /\ fsWritable = TRUE
  /\ fn = [op |-> "input"]

ListScans ==
  /\ fn.op = "input"
  /\ \E target \in OptionalStrings, project \in {Null, Some(<<"v">>)},
        project_id \in {Null, Some(<<"v">>)}, limit \in OptionalNumbers,
        status \in {Null, Some(<<"running">>), Some(<<"finished">>),
                    Some(<<"failed">>), Some(<<"all">>)} :
       LET options == [target |-> target, project |-> project,
                       project_id |-> project_id, limit |-> limit,
                       status |-> status]
       IN fn' = [op |-> "listScans", options |-> options,
                 params |-> listScansParams(options)]
  /\ UNCHANGED <<server, token, tokenFile, fsWritable>>

GetScanChecks ==
  /\ fn.op = "input"
  /\ \E page \in OptionalNumbers, page_size \in OptionalNumbers,
        name \in {Null, Some(<<"v">>)}, check_kind \in {Null, Some(<<"v">>)},
        severity \in Lists({<<"critical">>, <<"high">>}),
        status \in Lists({<<"0">>, <<"1">>}) :
       LET options == [page |-> page, page_size |-> page_size,
                       name |-> name, check_kind |-> check_kind,
                       severity |-> severity, status |-> status]
       IN fn' = [op |-> "getScanChecks", options |-> options,
                 params |-> getScanChecksParams(options)]
  /\ UNCHANGED <<server, token, tokenFile, fsWritable>>

GetScanPaths ==
  /\ fn.op = "input"
  /\ \E page \in OptionalNumbers, page_size \in OptionalNumbers,
        filter \in OptionalStrings :
       LET options == [page |-> page, page_size |-> page_size,
                       filter |-> filter]
       IN fn' = [op |-> "getScanPaths", options |-> options,
                 params |-> getScanPathsParams(options)]
  /\ UNCHANGED <<server, token, tokenFile, fsWritable>>

NextQuery == ListScans \/ GetScanChecks \/ GetScanPaths

SpecQuery == InitQuery /\ [][NextQuery]_vars

\* ---- the output file of discoverApi
\* A path is [abs, segs]: whether it starts with '/', and its segments;
\* the absolute path of segments << >> is the root.  The file system is the
\* set of directories that exist (dirs) and those that accept writes.
root == << >>

tmpdir == <<"tmp">>

workspacePath == <<"w">>

dirname(segs) == SubSeq(segs, 1, Len(segs) - 1)

basename(segs) == segs[Len(segs)]

RECURSIVE resolve(_, _)
\* path.resolve(base, rel): '.' is dropped, '..' removes the last segment
resolve(base, rel) ==
  IF rel = << >> THEN base
  ELSE IF rel[1] = "." THEN resolve(base, Tail(rel))
  ELSE IF rel[1] = ".."
    THEN resolve(IF base = << >> THEN base ELSE dirname(base), Tail(rel))
  ELSE resolve(Append(base, rel[1]), Tail(rel))

RECURSIVE pathString(_)
\* the text of an absolute path
pathString(segs) ==
  IF segs = << >> THEN <<"/">>
  ELSE IF Len(segs) = 1 THEN <<"/", segs[1]>>
  ELSE pathString(dirname(segs)) \o <<"/", basename(segs)>>

\* only a missing directory redirects
redirectsAbsoluteMissingOnly(dir, dirs) == dir \notin dirs

\* dirname === '/' || !fs.existsSync(dirname)
redirectsAbsolute(dir, dirs) == dir = root \/ dir \notin dirs

outputFile(output, dirs, writable) ==
  LET first == IF output.abs
                 THEN IF redirectsAbsolute(dirname(output.segs), dirs)
                        THEN Append(tmpdir, basename(output.segs))
                        ELSE output.segs
                 ELSE resolve(workspacePath, output.segs)
  IN IF dirname(first) \in writable
       THEN first
       ELSE Append(tmpdir, basename(first))

\* one source path, lang given, no target, project, exclude or version,
\* no_upload left at its default
discoverApiArgs(out) ==
  <<<<"swagger">>, <<"extract">>, pathString(<<"w", "src">>),
    <<"--lang">>, <<"js">>, <<"--output">>, pathString(out),
    <<"--no-upload">>>>

Outputs ==
  {[abs |-> TRUE, segs |-> <<"spec.yml">>],
   [abs |-> TRUE, segs |-> <<"d", "spec.yml">>],
   [abs |-> TRUE, segs |-> <<"w", "spec.yml">>],
   [abs |-> FALSE, segs |-> <<"spec.yml">>],
   [abs |-> FALSE, segs |-> <<".", "e", "spec.yml">>],
   [abs |-> FALSE, segs |-> <<"..", "d", "spec.yml">>],
   [abs |-> FALSE, segs |-> <<"..", "spec.yml">>]}

InitDiscover ==
  /\ Dormant
  /\ token = Some(<<"a">>)
  /\ tokenFile = Null
  /\ fsWritable = TRUE
  /\ \E D \in SUBSET {<<"w">>, <<"d">>} :
       \E W \in SUBSET ({root, tmpdir} \cup D) :
         fn = [op |-> "input", dirs |-> {root, tmpdir} \cup D, writable |-> W]

\* the CLI succeeds and discoverApi returns its output and the file line
DiscoverApiReturns ==
  /\ fn.op = "input"
  /\ \E output \in Outputs :
       LET out == outputFile(output, fn.dirs, fn.writable)
       IN fn' = [op |-> "discoverApi", dirs |-> fn.dirs,
                 writable |-> fn.writable, output |-> output,
                 outputFile |-> out, args |-> discoverApiArgs(out),
                 ok |-> TRUE,
                 returned |-> <<"paths discovered">>
                                \o <<"\nOpenAPI Specification File: ">>
                                \o pathString(out)]
  /\ UNCHANGED <<server, token, tokenFile, fsWritable>>

\* the CLI fails and discoverApi throws
DiscoverApiThrows ==
  /\ fn.op = "input"
  /\ \E output \in Outputs :
       LET out == outputFile(output, fn.dirs, fn.writable)
       IN fn' = [op |-> "discoverApi", dirs |-> fn.dirs,
                 writable |-> fn.writable, output |-> output,
                 outputFile |-> out, args |-> discoverApiArgs(out),
                 ok |-> FALSE,
                 returned |-> <<"Failed to discover API endpoints: ">>]
  /\ UNCHANGED <<server, token, tokenFile, fsWritable>>

NextDiscover == DiscoverApiReturns \/ DiscoverApiThrows

SpecDiscover == InitDiscover /\ [][NextDiscover]_vars

\* ---- the paths of download-traffic
\* Paths are texts here: sequences of characters and opaque words, absolute
\* when they start with '/'.  The inputs are normalised paths without '.'
\* or '..', for which path.join is concatenation with a separator.
Quotes == {"'", "\""}

homedir == <<"/", "h">>

tempDir == <<"/", "tmp">>

isAbsolute(p) == p # << >> /\ p[1] = "/"

\* replace(/^['"]|['"]$/g, ''): a leading and a trailing quote are removed
stripQuotes(s) ==
  LET a == IF s # << >> /\ s[1] \in Quotes THEN Tail(s) ELSE s
  IN IF a # << >> /\ a[Len(a)] \in Quotes THEN SubSeq(a, 1, Len(a) - 1) ELSE a

pathJoin(dir, rel) == dir \o <<"/">> \o rel

\* the download directory: the caller's text trimmed and unquoted; the home
\* directory when that is blank or not absolute; the temp directory when
\* fs.access(downloadPath, W_OK) fails
resolveDownloadPath(raw, writable) ==
  LET p == stripQuotes(trim(raw))
      d == IF p = << >> \/ trim(p) = << >> \/ ~isAbsolute(p) THEN homedir ELSE p
  IN IF d \in writable THEN d ELSE tempDir

\* output_file always joined to the download directory
finalOutputPathJoins(output_file, downloadPath, name) ==
  IF Truthy(output_file)
    THEN pathJoin(downloadPath, output_file.val)
    ELSE pathJoin(downloadPath, name \o <<".har">>)

finalOutputPath(output_file, downloadPath, name) ==
  IF Truthy(output_file)
    THEN IF isAbsolute(output_file.val)
           THEN output_file.val
           ELSE pathJoin(downloadPath, output_file.val)
    ELSE pathJoin(downloadPath, name \o <<".har">>)

DownloadPaths ==
  {<< >>, <<" ">>, <<"d">>, <<"/", "d">>, <<"/", "e">>,
   <<"'", "/", "d", "'">>, <<" ", "/", "d", " ">>, <<"\"", " ", "/", "d", "\"">>}

OutputFiles ==
  {Null, Some(<< >>), Some(<<"f.har">>), Some(<<"a", "/", "f.har">>),
   Some(<<"/", "x", "/", "f.har">>)}

InitTraffic ==
  /\ Dormant
  /\ token = Some(<<"a">>)
  /\ tokenFile = Null
  /\ fsWritable = TRUE
  /\ \E W \in SUBSET {homedir, <<"/", "d">>, <<"/", "e">>} :
       fn = [op |-> "input", writable |-> W]

Download(op) ==
  /\ fn.op = "input"
  /\ \E raw \in DownloadPaths, output_file \in OutputFiles :
       LET downloadPath == resolveDownloadPath(raw, fn.writable)
       IN fn' = [op |-> op, writable |-> fn.writable, raw |-> raw,
                 output_file |-> output_file, name |-> <<"n">>,
                 downloadPath |-> downloadPath,
                 finalOutputPath |->
                   finalOutputPath(output_file, downloadPath, <<"n">>)]
  /\ UNCHANGED <<server, token, tokenFile, fsWritable>>

\* the handler called with downloadPath
DownloadWithPath == Download("download-traffic")

\* the prompt's callback called with the caller's answer
DownloadOnResponse == Download("onResponse")

NextTraffic == DownloadWithPath \/ DownloadOnResponse

SpecTraffic == InitTraffic /\ [][NextTraffic]_vars

\* ---- service methods and their errors
\* An Error is [isAxiosError, status, message]: the flag axios.isAxiosError
\* reads, the HTTP status (text; "undefined" without a response) and the
\* message, a sequence of words.  What an HTTP request does is a record:
\* kind "data" with the response body, kind "status" with a status and an
\* optional detail field of the error body, or kind "network".
Error(message) ==
  [isAxiosError |-> FALSE, status |-> "undefined", message |-> message]

AxiosError(status, message) ==
  [isAxiosError |-> TRUE, status |-> status, message |-> message]

Returned(value) == [threw |-> FALSE, value |-> value]

Threw(error) == [threw |-> TRUE, error |-> error]

\* the error axios raises for what the request did
axiosError(http) ==
  IF http.kind = "status"
    THEN AxiosError(http.status,
                    <<"Request failed with status code ", http.status>>)
    ELSE AxiosError("undefined", <<"Network Error">>)

\* an apiRequest that lets the axios error through
apiRequestRethrows(http) ==
  IF http.kind = "data" THEN Returned(http.data) ELSE Threw(axiosError(http))

\* apiRequest: response.data, or a new Error made from the axios error
apiRequest(http) ==
  IF http.kind = "data" THEN Returned(http.data)
  ELSE LET e == axiosError(http)
           errorMessage == IF http.kind = "status" /\ Truthy(http.detail)
                             THEN http.detail.val ELSE e.message
       IN Threw(Error(<<"API request failed (", e.status, "): ">> \o errorMessage))

StatusCodes == {"400", "401", "403", "404", "500"}

Details == {Null, Some(<<"Not found.">>), Some(<<"Invalid token.">>)}

HttpErrors ==
  {[kind |-> "status", status |-> c, detail |-> d] : c \in StatusCodes, d \in Details}
    \cup {[kind |-> "network"]}

NoBody == [has |-> FALSE, results |-> << >>]

\* a paginated body: has is FALSE for a body without a results field
Bodies(items) ==
  {NoBody} \cup {[has |-> TRUE, results |-> r] :
                   r \in UNION {[1..k -> items] : k \in 0..MaxResults}}

ProjectNames == {<<"p1">>, <<"my project">>}

\* the catch clause of getProjectByName
getProjectByNameCatch(projectName, error) ==
  IF error.isAxiosError /\ error.status = "404"
    THEN Threw(Error(<<"Project '", projectName[1], "' not found",
                       ". Please check the project name and try again.">>))
    ELSE Threw(Error(<<"Failed to get project details: ">> \o error.message))

getProjectByName(projectName, http) ==
  LET response == apiRequest(http) IN
  IF response.threw THEN getProjectByNameCatch(projectName, response.error)
  ELSE IF ~response.value.has \/ response.value.results = << >>
    THEN getProjectByNameCatch(projectName,
           Error(<<"Project '", projectName[1], "' not found",
                   " or has no data.">>))
  ELSE Returned(response.value.results[1])

InitService ==
  /\ Dormant
  /\ token \in {Null, Some(<<"a">>)}
  /\ tokenFile = Null
  /\ fsWritable = TRUE
  /\ fn = [op |-> "input"]

GetProjectByName ==
  /\ fn.op = "input"
  /\ \E projectName \in ProjectNames :
       \E http \in HttpErrors \cup
             {[kind |-> "data", data |-> b] : b \in Bodies({"proj1", "proj2"})} :
         fn' = [op |-> "getProjectByName", projectName |-> projectName,
                http |-> http, result |-> getProjectByName(projectName, http)]
  /\ UNCHANGED <<server, token, tokenFile, fsWritable>>

\* ---- discoverApi: a failed run of the CLI
\* A message is a sequence of words; Has(word) is the set of the substrings
\* searched for by the service and the handler that the word contains.
Has(word) ==
  CASE word = "0 paths discovered" -> {"0 paths discovered"}
    [] word = "read-only file system" -> {"read-only file system"}
    [] word = "permission denied" -> {"permission denied"}
    [] word = "no such file or directory" -> {"no such file or directory"}
    [] word = "maxBuffer length exceeded" ->
         {"maxBuffer length exceeded", "maxBuffer"}
    [] word = "--lang" -> {"lang"}
    [] word = "src/lang" -> {"lang"}
    [] word = "No API endpoints found in [" -> {"No API endpoints found"}
    [] word \in {"400", "401", "403", "404"} -> {word}
    [] word = "/w/cve-2024-4040.yaml" -> {"404"}
    [] word = "/w/t-4001.yaml" -> {"400"}
    [] word = "Nuclei template file not found at: " -> {"not found"}
    [] word = "The file does not appear to be a valid nuclei template." ->
         {"valid nuclei template"}
    [] word = " not found. Please check that the ID exists and you have access to it." ->
         {"not found"}
    [] OTHER -> {}

\* message.includes(sub)
messageIncludes(message, sub) ==
  \E k \in 1..Len(message) : sub \in Has(message[k])

\* what the CLI run can write: failure signatures, the command line echoed
\* with its --lang flag, and text that matches nothing
CliWords ==
  {"0 paths discovered", "read-only file system", "permission denied",
   "no such file or directory", "maxBuffer length exceeded", "--lang",
   "exit status 1"}

CliMessages == UNION {[1..k -> CliWords] : k \in 1..MaxWords}

SourcePaths == {<<"src">>, <<"src/lang">>}

\* catch clause of executeCommand
executeCommandError(message) ==
  Error(<<"NightVision command failed: ">> \o message)

NoEndpoints(sourcePath) ==
  <<"No API endpoints found in [">> \o sourcePath
    \o <<"] using js. Try more specific directories.">>

FileSystemError ==
  <<"File system error: Unable to write to ", "/w/spec.yml",
    ". This may be due to permissions issues. Try specifying a different output location where you have write permissions.">>

OutputTooLarge ==
  <<"Output too large. Try analyzing smaller directories or using the 'exclude' parameter to filter files.">>

\* the inner catch of discoverApi: the guidance error, or the error itself
discoverApiClassify(cliError, sourcePath) ==
  LET m == cliError.message IN
  IF messageIncludes(m, "0 paths discovered")
    THEN Error(NoEndpoints(sourcePath))
  ELSE IF \/ messageIncludes(m, "read-only file system")
          \/ messageIncludes(m, "permission denied")
          \/ messageIncludes(m, "no such file or directory")
    THEN Error(FileSystemError)
  ELSE IF messageIncludes(m, "maxBuffer length exceeded")
    THEN Error(OutputTooLarge)
  ELSE cliError

\* the outer catch of discoverApi
discoverApiError(cliError, sourcePath) ==
  Error(<<"Failed to discover API endpoints: ">>
          \o discoverApiClassify(cliError, sourcePath).message)

\* a handler that does not look for "lang"
discoverApiCatchNoLang(message) ==
  IF \/ messageIncludes(message, "read-only file system")
     \/ messageIncludes(message, "permission denied")
     \/ messageIncludes(message, "file system error")
    THEN Resp(message \o <<"This is likely due to permissions issues.">>, TRUE)
  ELSE IF \/ messageIncludes(message, "0 paths discovered")
          \/ messageIncludes(message, "No API endpoints found")
    THEN Resp(<<"No API endpoints found in ", "using language">>, TRUE)
  ELSE IF messageIncludes(message, "maxBuffer")
    THEN Resp(<<"The API discovery output was too large to process.">>, TRUE)
  ELSE Resp(<<"Failed to discover API endpoints: ">> \o message, TRUE)

\* the catch clause of the discover-api-with-path handler
discoverApiCatch(message) ==
  IF messageIncludes(message, "lang")
    THEN Resp(<<"Language error: Please specify a valid language with 'lang'.">>, TRUE)
  ELSE IF \/ messageIncludes(message, "read-only file system")
          \/ messageIncludes(message, "permission denied")
          \/ messageIncludes(message, "file system error")
    THEN Resp(message \o <<"This is likely due to permissions issues.">>, TRUE)
  ELSE IF \/ messageIncludes(message, "0 paths discovered")
          \/ messageIncludes(message, "No API endpoints found")
    THEN Resp(<<"No API endpoints found in ", "using language">>, TRUE)
  ELSE IF messageIncludes(message, "maxBuffer")
    THEN Resp(<<"The API discovery output was too large to process.">>, TRUE)
  ELSE Resp(<<"Failed to discover API endpoints: ">> \o message, TRUE)

\* discover-api-with-path when the CLI run fails with message cli
DiscoverApiFails ==
  /\ fn.op = "input"
  /\ \E cli \in CliMessages, sourcePath \in SourcePaths :
       LET cliError == executeCommandError(cli)
           error == discoverApiError(cliError, sourcePath)
       IN fn' = [op |-> "discoverApiFails", cli |-> cli,
                 sourcePath |-> sourcePath, cliError |-> cliError,
                 error |-> error, resp |-> discoverApiCatch(error.message)]
  /\ UNCHANGED <<server, token, tokenFile, fsWritable>>

\* ---- nuclei templates: required parameters
\* A call's result is [threw, message, requests]: requests counts the HTTP
\* requests the call issued.
Result(threw, message, requests) ==
  [threw |-> threw, message |-> message, requests |-> requests]

\* !value || value.trim() === ''
isBlank(o) == ~Truthy(o) \/ trim(o.val) = << >>

Params == {Null, Some(<< >>), Some(<<" ">>), Some(<<"x">>), Some(<<" ", "x">>)}

\* the outcome of the one request of a template call
TemplateHttp ==
  {[kind |-> "data", data |-> "template"]} \cup
  {[kind |-> "status", status |-> c, detail |-> Null] : c \in {"400", "401", "404"}}

createNucleiTemplate(name, projectId, http) ==
  IF isBlank(name) THEN Result(TRUE, <<"Template name is required">>, 0)
  ELSE IF isBlank(projectId) THEN Result(TRUE, <<"Project ID is required">>, 0)
  ELSE LET response == apiRequest(http) IN
       IF ~response.threw THEN Result(FALSE, <<"created">>, 1)
       ELSE IF response.error.message[2] \in {"401", "403"}
         THEN Result(TRUE, <<"Authentication or permission error.">>, 1)
       ELSE IF response.error.message[2] = "400"
         THEN Result(TRUE, <<"Bad request when creating template: ">>
                             \o SubSeq(response.error.message, 4,
                                       Len(response.error.message)), 1)
       ELSE Result(TRUE, <<"Failed to create nuclei template: ">>
                           \o response.error.message, 1)

\* the create-nuclei-template handler, a credential being held
createNucleiTemplateHandler(name, project_id, http) ==
  IF isBlank(name)
    THEN Result(TRUE, <<"Template name is required. Please provide a name for your nuclei template.">>, 0)
  ELSE IF isBlank(project_id)
    THEN Result(TRUE, <<"Project ID is required. Please specify the project UUID to associate with this template.">>, 0)
  ELSE LET r == createNucleiTemplate(name, project_id, http) IN
       IF r.threw
         THEN Result(TRUE, <<"Failed to create nuclei template: ">> \o r.message,
                     r.requests)
         ELSE Result(FALSE, <<"Successfully created nuclei template">>, r.requests)

\* an assignment that posts whatever it is given
assignNucleiTemplateUnchecked(targetId, templateId, http) ==
  LET response == apiRequest(http) IN
  IF ~response.threw THEN Result(FALSE, <<"assigned">>, 1)
  ELSE Result(TRUE, <<"Failed to assign nuclei template to target: ">>
                      \o response.error.message, 1)

assignNucleiTemplate(targetId, templateId, http) ==
  IF isBlank(targetId)
    THEN Result(TRUE, <<"Failed to assign nuclei template to target: ",
                        "Target ID is required">>, 0)
  ELSE IF isBlank(templateId)
    THEN Result(TRUE, <<"Failed to assign nuclei template to target: ",
                        "Template ID is required">>, 0)
  ELSE LET response == apiRequest(http) IN
       IF ~response.threw THEN Result(FALSE, <<"assigned">>, 1)
       ELSE IF response.error.message[2] = "404"
         THEN Result(TRUE, <<"Target ID or Template ID not found.">>, 1)
       ELSE IF response.error.message[2] \in {"401", "403"}
         THEN Result(TRUE, <<"Authentication or permission error.">>, 1)
       ELSE IF response.error.message[2] = "400"
         THEN Result(TRUE, <<"Bad request when assigning template.">>, 1)
       ELSE Result(TRUE, <<"Failed to assign nuclei template to target: ">>
                           \o response.error.message, 1)

CreateNucleiTemplate ==
  /\ fn.op = "input"
  /\ \E name \in Params, projectId \in Params, http \in TemplateHttp :
       fn' = [op |-> "createNucleiTemplate", first |-> name,
              second |-> projectId, http |-> http,
              result |-> createNucleiTemplate(name, projectId, http)]
  /\ UNCHANGED <<server, token, tokenFile, fsWritable>>

CreateNucleiTemplateTool ==
  /\ fn.op = "input"
  /\ Truthy(token)
  /\ \E name \in Params, project_id \in Params, http \in TemplateHttp :
       fn' = [op |-> "create-nuclei-template", first |-> name,
              second |-> project_id, http |-> http,
              result |-> createNucleiTemplateHandler(name, project_id, http)]
  /\ UNCHANGED <<server, token, tokenFile, fsWritable>>

AssignNucleiTemplate ==
  /\ fn.op = "input"
  /\ \E targetId \in Params, templateId \in Params, http \in TemplateHttp :
       fn' = [op |-> "assignNucleiTemplate", first |-> targetId,
              second |-> templateId, http |-> http,
              result |-> assignNucleiTemplate(targetId, templateId, http)]
  /\ UNCHANGED <<server, token, tokenFile, fsWritable>>

\* ---- uploadNucleiTemplate
FilePaths == {"/w/t.yaml", "/w/cve-2024-4040.yaml", "/w/t-4001.yaml"}

\* the file: whether it exists, and which of the markers its content has
Files == [exists : BOOLEAN, markers : SUBSET {"id:", "info:"}]

\* the catch clause of uploadNucleiTemplate
uploadNucleiTemplateCatch(message, requests) ==
  IF messageIncludes(message, "404")
    THEN Result(TRUE, <<"Template ID ", "t1", " not found. Please check that the ID exists and you have access to it.">>, requests)
  ELSE IF messageIncludes(message, "401") \/ messageIncludes(message, "403")
    THEN Result(TRUE, <<"Authentication or permission error.">>, requests)
  ELSE IF messageIncludes(message, "400")
    THEN Result(TRUE, <<"Bad request when uploading template.">>, requests)
  ELSE Result(TRUE, <<"Failed to upload nuclei template: ">> \o message, requests)

\* an upload that does not look at the content
uploadNucleiTemplateNoSniff(filePath, file, http) ==
  IF ~file.exists
    THEN uploadNucleiTemplateCatch(
           <<"Nuclei template file not found at: ", filePath>>, 0)
  ELSE LET response == apiRequest(http) IN
       IF response.threw
         THEN uploadNucleiTemplateCatch(response.error.message, 1)
         ELSE Result(FALSE, <<"uploaded">>, 1)

uploadNucleiTemplate(filePath, file, http) ==
  IF ~file.exists
    THEN uploadNucleiTemplateCatch(
           <<"Nuclei template file not found at: ", filePath>>, 0)
  ELSE IF file.markers # {"id:", "info:"}
    THEN uploadNucleiTemplateCatch(
           <<"The file does not appear to be a valid nuclei template.",
             " It should contain 'id:' and 'info:' sections.">>, 0)
  ELSE LET response == apiRequest(http) IN
       IF response.threw
         THEN uploadNucleiTemplateCatch(response.error.message, 1)
         ELSE Result(FALSE, <<"uploaded">>, 1)

\* the upload-nuclei-template handler, a credential being held and the
\* path absolute
uploadNucleiTemplateHandler(filePath, file, http) ==
  IF ~file.exists
    THEN Result(TRUE, <<"File not found: ", filePath>>, 0)
  ELSE LET r == uploadNucleiTemplate(filePath, file, http) IN
       IF ~r.threw
         THEN Result(FALSE, <<"Successfully uploaded nuclei template">>, r.requests)
       ELSE IF messageIncludes(r.message, "not found")
              \/ messageIncludes(r.message, "valid nuclei template")
         THEN Result(TRUE, r.message, r.requests)
       ELSE Result(TRUE, <<"Failed to upload nuclei template: ">> \o r.message,
                   r.requests)

UploadNucleiTemplate ==
  /\ fn.op = "input"
  /\ \E filePath \in FilePaths, file \in Files, http \in TemplateHttp :
       fn' = [op |-> "uploadNucleiTemplate", filePath |-> filePath,
              file |-> file, http |-> http,
              result |-> uploadNucleiTemplate(filePath, file, http)]
  /\ UNCHANGED <<server, token, tokenFile, fsWritable>>

UploadNucleiTemplateTool ==
  /\ fn.op = "input"
  /\ Truthy(token)
  /\ \E filePath \in FilePaths, file \in Files, http \in TemplateHttp :
       fn' = [op |-> "upload-nuclei-template", filePath |-> filePath,
              file |-> file, http |-> http,
              result |-> uploadNucleiTemplateHandler(filePath, file, http)]
  /\ UNCHANGED <<server, token, tokenFile, fsWritable>>

NextService ==
  \/ UploadNucleiTemplate
  \/ UploadNucleiTemplateTool
  \/ GetProjectByName
  \/ DiscoverApiFails
  \/ CreateNucleiTemplate
  \/ CreateNucleiTemplateTool
  \/ AssignNucleiTemplate

SpecService == InitService /\ [][NextService]_vars

\* ---- get-scan-status: which scan is looked up
\* The platform holds the scans of the target in the order in which its
\* listing returns them; a scan is [id, created].  The listing answers with
\* at most limit scans, the first ones in that order.
SCAN_LIST_LIMIT == 10

Timestamps == 1..MaxTime

PlatformScans ==
  UNION {[1..n -> Timestamps] : n \in 0..MaxScans}

\* the results of listScans({target, project, limit})
listScansResults(created, limit) ==
  [k \in 1..(IF Len(created) > limit THEN limit ELSE Len(created)) |-> [id |-> k, created |-> created[k]]]

RECURSIVE insertByCreated(_, _)
\* scan goes behind every scan that is not older than it
insertByCreated(scan, sorted) ==
  IF sorted = << >> THEN <<scan>>
  ELSE IF sorted[1].created >= scan.created
    THEN <<sorted[1]>> \o insertByCreated(scan, Tail(sorted))
  ELSE <<scan>> \o sorted

RECURSIVE sortByCreated(_)
\* results.sort((a, b) => new Date(b.created) - new Date(a.created)): newest
\* first, scans of equal age in their order of arrival
sortByCreated(results) ==
  IF results = << >> THEN << >>
  ELSE insertByCreated(results[Len(results)],
                       sortByCreated(SubSeq(results, 1, Len(results) - 1)))

\* a handler that takes the first scan of the listing
latestScanFirstListed(results) == results[1]

latestScan(results) == sortByCreated(results)[1]

InitScans ==
  /\ Dormant
  /\ token = Some(<<"a">>)
  /\ tokenFile = Null
  /\ fsWritable = TRUE
  /\ \E created \in PlatformScans : fn = [op |-> "input", created |-> created]

\* get-scan-status with target_name and no scan_id, every request succeeding
GetScanStatusByTarget ==
  /\ fn.op = "input"
  /\ LET results == listScansResults(fn.created, SCAN_LIST_LIMIT) IN
     fn' = [op |-> "get-scan-status", created |-> fn.created, scan_id |-> 0,
            calls |-> IF results = << >> THEN <<"listScans">>
                      ELSE <<"listScans", "getScanStatus">>,
            queried |-> IF results = << >> THEN 0 ELSE latestScan(results).id,
            isError |-> results = << >>]
  /\ UNCHANGED <<server, token, tokenFile, fsWritable>>

\* get-scan-status with scan_id
GetScanStatusById ==
  /\ fn.op = "input"
  /\ \E scanId \in 1..MaxScans :
       fn' = [op |-> "get-scan-status", created |-> fn.created,
              scan_id |-> scanId, calls |-> <<"getScanStatus">>,
              queried |-> scanId, isError |-> scanId > Len(fn.created)]
  /\ UNCHANGED <<server, token, tokenFile, fsWritable>>

NextScans == GetScanStatusByTarget \/ GetScanStatusById

SpecScans == InitScans /\ [][NextScans]_vars

\* ================================================================ claims
\* the slots that hold a tool invocation (not an onResponse callback)
Invocations == {i \in Slots : inv[i].tool # "none" /\ ~inv[i].cb}

AuthRequiredTexts ==
  {"Not authenticated. Please use the authenticate tool",
   "Not authenticated. Please provide a token"}

C2_ReturnsInSameTurn ==
  \A i \in Invocations :
    inv[i].tool = "start-scan" =>
      /\ inv[i].pc = "returned"
      /\ inv[i].ncalls = 0
      /\ (inv[i].cred /\ inv[i].args.project) =>
           /\ inv[i].resp = ScanInitiated
           /\ inv[i].launch \in LaunchIds
           /\ launches[inv[i].launch].state = "scheduled"

\* the confirmation is out and the launch is still only queued
C2_Witness ==
  \E i \in Invocations :
    /\ inv[i].tool = "start-scan"
    /\ inv[i].resp = ScanInitiated
    /\ inv[i].launch \in LaunchIds
    /\ launches[inv[i].launch].state = "scheduled"

\* C3: the scan-launch command of a start-scan invocation is spawned only
\* once the handler that queued it has returned.
C3_LaunchBeginsAfterReturn ==
  \A l \in LaunchIds :
    launches[l].state \in {"running", "logged", "rejected"} =>
      launches[l].begunWhile = "returned"

\* a launch command is running
C3_Witness ==
  \E l \in LaunchIds :
    launches[l].state = "running" /\ launches[l].begunWhile = "returned"

\* C4: the outcome of the background launch never reaches the caller: a
\* start-scan response is the credential error, the project error or the
\* confirmation (the confirmation whenever both checks pass), never one of
\* the handler's launch-failure responses, and the step in which a launch
\* settles changes no invocation and returns nothing.
C4_Responses ==
  {NotAuthenticated, Resp("You must specify a project", TRUE), ScanInitiated}

C4_LaunchSettles ==
  \E l \in LaunchIds :
    launches[l].state = "running" /\ launches'[l].state # "running"

Unhandled ==
  \/ \E i \in Slots : inv[i].pc = "thrown"
  \/ \E l \in LaunchIds : launches[l].state = "rejected"

\* C5 as stated: nothing is thrown or left unhandled, and every error raised
\* by an operation during an invocation, the background launch and the
\* prompt callback included, ends in a single-block error-flagged response
\* of the handler.
C5_EveryErrorFlagged ==
  /\ ~Unhandled
  /\ \A i \in Slots :
       (inv[i].pc = "returned" /\ inv[i].raised # {}) =>
         inv[i].resp.isError /\ inv[i].resp.blocks = 1
  /\ \A l \in LaunchIds :
       (launches[l].state = "logged" /\ launches[l].outcome # "ok") =>
         launches[l].flagged

\* the errors a handler catches and logs without answering with them
Swallowed(tool) == IF tool = "delete-target" THEN {"listTargets"} ELSE {}

\* C5 amended: nothing is thrown or left unhandled, every response is a
\* single text block, and every error an operation raises to a handler or to
\* the prompt callback ends in an error-flagged response, except a failure
\* of delete-target's preliminary listTargets lookup; a failed background
\* launch is logged and its handler's response stays unflagged.
C5_NoExceptionCrosses ==
  /\ ~Unhandled
  /\ \A i \in Slots :
       inv[i].pc = "returned" =>
         /\ inv[i].resp.blocks = 1
         /\ (inv[i].raised \ Swallowed(inv[i].tool)) # {} => inv[i].resp.isError
  /\ \A l \in LaunchIds :
       launches[l].state = "logged" => ~launches[l].flagged

\* the prompt callback's download failed and it answered with an error
C5_Witness ==
  \E i \in Slots :
    /\ inv[i].cb
    /\ inv[i].pc = "returned"
    /\ inv[i].raised = {"downloadTraffic"}
    /\ inv[i].resp.isError

\* a string that neither begins nor ends with whitespace
NoEdgeWhitespace(str) ==
  str = << >> \/ (str[1] \notin Whitespace /\ str[Len(str)] \notin Whitespace)

\* C6 as stated: when the file operations succeed, a load after save(t)
\* returns t for every token string t, and a load after clear returns absent.
C6_RoundTripEveryString ==
  (fn.loaded /\ fn.wrote /\ fn.read) =>
    /\ fn.op = "save" => fn.out = Some(fn.arg)
    /\ fn.op = "clear" => ~fn.out.has

\* C6 amended: when the file operations succeed, a load after save(t)
\* returns t for every token string t that neither begins nor ends with
\* whitespace, and a load after clear returns absent.
C6_RoundTrip ==
  (fn.loaded /\ fn.wrote /\ fn.read) =>
    /\ (fn.op = "save" /\ NoEdgeWhitespace(fn.arg)) => fn.out = Some(fn.arg)
    /\ fn.op = "clear" => ~fn.out.has

\* a token has been saved and loaded back
C6_Witness ==
  /\ fn.op = "save"
  /\ fn.arg = <<"a", "a">>
  /\ fn.loaded /\ fn.wrote /\ fn.read
  /\ fn.out = Some(fn.arg)

\* the responses of authenticate that report a failed verification of the
\* credential it has just set
VerificationFailed ==
  {Resp("Created a new token but it couldn't be validated", TRUE),
   Resp("The provided token is not valid", TRUE)}

\* C7: when authenticate has set a credential (supplied or newly created)
\* and its verification failed, no credential is held in the process and no
\* token is persisted (the token directory being writable).
C7_ClearedOnValidationFailure ==
  \A i \in Invocations :
    (/\ inv[i].tool = "authenticate"
     /\ inv[i].pc = "returned"
     /\ inv[i].resp \in VerificationFailed
     /\ fsWritable) =>
      ~token.has /\ ~tokenFile.has

\* a step of an authenticate invocation
AuthenticateStep ==
  \E i \in Slots :
    /\ inv'[i] # inv[i]
    /\ inv[i].tool = "authenticate" \/ inv'[i].tool = "authenticate"

\* C8: once main() has finished, every step that is not a step of an
\* authenticate invocation (other handlers, the prompt callback, the timer
\* and the settling of the background launch) leaves the in-process
\* credential and the persisted token as they are.
C8_OnlyAuthenticateMutates ==
  [][(boot = "running" /\ ~AuthenticateStep) =>
        (token' = token /\ tokenFile' = tokenFile)]_vars

\* with a credential held and persisted, a background launch has failed and
\* another tool's operation has failed too
C8_Witness ==
  /\ Truthy(token)
  /\ tokenFile.has
  /\ \E l \in LaunchIds :
       launches[l].state = "logged" /\ launches[l].outcome # "ok"
  /\ \E i \in Invocations :
       /\ inv[i].tool = "list-scans"
       /\ inv[i].pc = "returned"
       /\ inv[i].raised # {}

\* the pieces of str between the occurrences of sep
FirstAt(str, sep) ==
  LET K == {k \in 1..(Len(str) - Len(sep) + 1) :
              SubSeq(str, k, k + Len(sep) - 1) = sep}
  IN IF K = {} THEN 0 ELSE Min(K)

RECURSIVE split(_, _)
split(str, sep) ==
  LET k == FirstAt(str, sep) IN
  IF k = 0 THEN <<str>>
  ELSE <<SubSeq(str, 1, k - 1)>>
         \o split(SubSeq(str, k + Len(sep), Len(str)), sep)

TableLines == split(fn.out, <<"\n">>)

\* the longest of column i's header and cell values
ColumnWidth(i) ==
  Max({Len(fn.headers[i])} \cup {Len(fn.rows[r][i]) : r \in 1..Len(fn.rows)})

\* N + 2 lines: every header and data line has H columns of the columns'
\* widths, and the separator is a rule of the same length
WellFormedTable ==
  /\ Len(TableLines) = Len(fn.rows) + 2
  /\ \A n \in 1..Len(TableLines) :
       n # 2 =>
         LET cols == split(TableLines[n], <<" ", "|", " ">>) IN
         /\ Len(cols) = Len(fn.headers)
         /\ \A i \in 1..Len(cols) : Len(cols[i]) = ColumnWidth(i)
  /\ Len(TableLines[2]) = Len(TableLines[1])
  /\ \A k \in 1..Len(TableLines[2]) : TableLines[2][k] \in {"-", "+"}

NoLineBreaks ==
  \A r \in 1..Len(fn.rows) : \A i \in 1..Len(fn.rows[r]) :
    ~includes(fn.rows[r][i], "\n")

RECURSIVE words(_, _, _)
words(str, cur, quoted) ==
  IF str = << >> THEN <<cur>>
  ELSE IF Head(str) = " " /\ ~quoted
    THEN <<cur>> \o words(Tail(str), << >>, FALSE)
  ELSE words(Tail(str), Append(cur, Head(str)),
             IF Head(str) = "\"" THEN ~quoted ELSE quoted)

\* C10: the command line holds one word per argument (the program name, the
\* caller's arguments, the flags and their values, the credential): the
\* argument in double quotes when it contains a space, the argument as it is
\* when it does not.
C10_SpaceArgumentsQuoted ==
  fn.op = "executeCommand" =>
    LET w == words(fn.command, << >>, FALSE) IN
    /\ Len(w) = Len(fn.argv)
    /\ \A k \in 1..Len(fn.argv) :
         w[k] = IF includes(fn.argv[k], " ")
                  THEN <<"\"">> \o fn.argv[k] \o <<"\"">>
                  ELSE fn.argv[k]
    /\ \A k \in 1..Len(fn.args) : fn.argv[k + 1] = fn.args[k]
    /\ (Truthy(token) /\ ~fn.skipToken) => fn.argv[Len(fn.argv)] = token.val

\* a command with a caller argument containing a space, one without, and a
\* credential containing a space
C10_Witness ==
  /\ fn.op = "executeCommand"
  /\ fn.args = <<<<"a", " ">>, <<"a">>>>
  /\ token = Some(<<"a", " ">>)
  /\ ~fn.skipToken
  /\ fn.command[Len(fn.command)] = "\""

\* an argument that holds a space, a tab or a line break
HasWhitespace(arg) == \E k \in 1..Len(arg) : arg[k] \in Whitespace

\* C11: in the command line every argument that contains a whitespace
\* character (space, tab or line break) stands in double quotes.
C11_WhitespaceArgumentsQuoted ==
  fn.op = "executeCommand" =>
    LET w == words(fn.command, << >>, FALSE) IN
    /\ Len(w) = Len(fn.argv)
    /\ \A k \in 1..Len(fn.argv) :
         HasWhitespace(fn.argv[k]) =>
           w[k] = <<"\"">> \o fn.argv[k] \o <<"\"">>

\* the flags executeCommand puts behind the caller's arguments
TrailingFlags ==
  <<<<"-F">>, <<fn.format>>, <<"--api-url">>,
    <<"https://api.nightvision.net/api/v1/">>>>
    \o (IF token.has /\ token.val # << >> /\ ~fn.skipToken
          THEN <<<<"--token">>, token.val>> ELSE << >>)

\* C12: createTarget(name, url, {project}) with no other option builds the
\* arguments target create <name> <url> -p <project>, in this order,
\* followed only by the format, endpoint and credential flags; for
\* createTarget("t1", "http://x", {project: "p1"}) the command line begins
\* with nightvision target create t1 http://x -p p1.
C12_CreateTargetArguments ==
  (fn.op = "createTarget" /\ fn.options = NoOptions) =>
    /\ fn.argv =
         <<<<"nightvision">>, <<"target">>, <<"create">>, fn.name, fn.url,
           <<"-p">>, fn.options.project>> \o TrailingFlags
    /\ fn.name = <<"t1">> =>
         SubSeq(fn.command, 1, 13) =
           <<"nightvision", " ", "target", " ", "create", " ", "t1", " ",
             "http://x", " ", "-p", " ", "p1">>

\* createTarget("t1", "http://x", {project: "p1"}) with a credential held
C12_Witness ==
  /\ fn.op = "createTarget"
  /\ fn.options = NoOptions
  /\ fn.name = <<"t1">>
  /\ token = Some(<<"a">>)
  /\ Len(fn.argv) = 13

\* C13: every command that executeCommand builds carries, behind the
\* caller's arguments, the output-format flag and the fixed API-endpoint
\* flag, and then the credential flag if and only if a credential is held
\* when the command is built and skipToken is not set; its value is the
\* credential held at that moment.
C13_TrailingFlags ==
  [][(fn.op = "input" /\ fn'.op \in {"executeCommand", "createTarget"}) =>
       LET n == Len(fn'.args)
           argv == fn'.argv
           held == token.has /\ token.val # << >> /\ ~fn'.skipToken
       IN /\ Len(argv) = n + 5 + (IF held THEN 2 ELSE 0)
          /\ argv[n + 2] = <<"-F">>
          /\ argv[n + 3] = <<fn'.format>>
          /\ fn'.format \in {"text", "json", "table"}
          /\ argv[n + 4] = <<"--api-url">>
          /\ argv[n + 5] = <<"https://api.nightvision.net/api/v1/">>
          /\ held => argv[n + 6] = <<"--token">> /\ argv[n + 7] = token.val
          /\ ~held => \A k \in 1..Len(argv) : argv[k] # <<"--token">>]_vars

\* a command built with skipToken set while a credential is held
C13_Witness ==
  /\ fn.op = "executeCommand"
  /\ fn.skipToken
  /\ token = Some(<<"a">>)
  /\ Len(fn.argv) = Len(fn.args) + 5

QueryOps == {"listScans", "getScanChecks", "getScanPaths"}

NumberKeys == {"limit", "page", "page_size"}

\* the option a query key is taken from
OptionName(key) ==
  CASE key = "target_name" -> "target"
    [] key = "project_name" -> "project"
    [] OTHER -> key

\* C15 (as stated): for list scans, get scan checks and get scan paths a
\* key is in the query mapping only when the caller supplied its option,
\* and no key carries an empty value; the list-scans status 'all' gives no
\* status key and get scan paths has no page_size key when it is omitted.
C15_KeysOnlyWhenSupplied ==
  fn.op \in QueryOps =>
    /\ \A key \in DOMAIN fn.params :
         IF fn.op = "getScanChecks" /\ key \in {"severity", "status"}
           THEN fn.params[key] # << >>
           ELSE /\ fn.options[OptionName(key)].has
                /\ key \notin NumberKeys => fn.params[key] # << >>
    /\ (fn.op = "listScans" /\ fn.options.status = Some(<<"all">>)) =>
         "status" \notin DOMAIN fn.params
    /\ (fn.op = "getScanPaths" /\ ~fn.options.page_size.has) =>
         "page_size" \notin DOMAIN fn.params

\* C15 (amended): every key of list scans and get scan paths, and the keys
\* page, name and check_kind of get scan checks, are in the mapping only
\* when the caller supplied the option, and then carry the supplied,
\* non-empty value; status 'all' gives no status key; get scan paths has
\* no page_size key when it is omitted.  Get scan checks always has the
\* keys page_size (the supplied non-zero value, else 100), severity and
\* status (the caller's lists as given, an empty list included).
C15_KeysOfTheQuery ==
  fn.op \in QueryOps =>
    /\ \A key \in DOMAIN fn.params :
         IF fn.op = "getScanChecks" /\ key \in {"severity", "status"}
           THEN fn.params[key] = fn.options[key]
         ELSE IF fn.op = "getScanChecks" /\ key = "page_size"
           THEN fn.params[key] = (IF TruthyNumber(fn.options.page_size)
                                    THEN fn.options.page_size.val ELSE 100)
         ELSE /\ fn.options[OptionName(key)].has
              /\ fn.params[key] = fn.options[OptionName(key)].val
              /\ key \notin NumberKeys => fn.params[key] # << >>
              /\ key \in NumberKeys => fn.params[key] # 0
    /\ fn.op = "getScanChecks" =>
         {"page_size", "severity", "status"} \subseteq DOMAIN fn.params
    /\ (fn.op = "listScans" /\ fn.options.status = Some(<<"all">>)) =>
         "status" \notin DOMAIN fn.params
    /\ (fn.op = "getScanPaths" /\ ~fn.options.page_size.has) =>
         "page_size" \notin DOMAIN fn.params

\* list scans asked for status 'all' and a target: only the target is sent
C15_Witness ==
  /\ fn.op = "listScans"
  /\ fn.options.status = Some(<<"all">>)
  /\ fn.options.target = Some(<<"v">>)
  /\ DOMAIN fn.params = {"target_name"}

\* str contains sub as a contiguous run
contains(str, sub) ==
  \E k \in 0..(Len(str) - Len(sub)) : SubSeq(str, k + 1, k + Len(sub)) = sub

\* the requested output path as an absolute path
Requested(output) ==
  IF output.abs THEN output.segs ELSE resolve(workspacePath, output.segs)

\* C16 (as stated): discoverApi sends the output to <tmpdir>/<base filename>
\* whenever the directory of the requested output path is the root, does
\* not exist or is not writable, and otherwise uses the requested path; on
\* success the returned string contains the absolute path given to the CLI.
C16_RedirectsWheneverRootMissingOrReadOnly ==
  fn.op = "discoverApi" =>
    LET req == Requested(fn.output)
        dir == dirname(req)
    IN /\ fn.outputFile =
            (IF dir = root \/ dir \notin fn.dirs \/ dir \notin fn.writable
               THEN Append(tmpdir, basename(req))
               ELSE req)
       /\ fn.args[6] = <<"--output">> /\ fn.args[7] = pathString(fn.outputFile)
       /\ fn.ok => contains(fn.returned, fn.args[7]) /\ fn.args[7][1] = "/"

\* C16 (amended): discoverApi sends the output to <tmpdir>/<base filename>
\* when the requested output path is absolute and its directory is the
\* root or does not exist, and when the directory of the path (a relative
\* path being resolved against the project path) does not exist or is not
\* writable; in every other case the requested path, resolved, is used.
\* Output "/spec.yml" therefore becomes <tmpdir>/spec.yml.  On success the
\* returned string contains the absolute path given to the CLI.
C16_OutputFile ==
  fn.op = "discoverApi" =>
    LET req == Requested(fn.output)
        dir == dirname(req)
    IN /\ fn.outputFile =
            (IF (fn.output.abs /\ dir = root) \/ dir \notin fn.dirs
                  \/ dir \notin fn.writable
               THEN Append(tmpdir, basename(req))
               ELSE req)
       /\ fn.output = [abs |-> TRUE, segs |-> <<"spec.yml">>] =>
            fn.outputFile = <<"tmp", "spec.yml">>
       /\ fn.args[6] = <<"--output">> /\ fn.args[7] = pathString(fn.outputFile)
       /\ fn.ok => contains(fn.returned, fn.args[7]) /\ fn.args[7][1] = "/"

\* "/spec.yml" requested with a writable root: redirected, and returned
C16_Witness ==
  /\ fn.op = "discoverApi"
  /\ fn.ok
  /\ fn.output = [abs |-> TRUE, segs |-> <<"spec.yml">>]
  /\ root \in fn.writable
  /\ fn.args[7] = <<"/", "tmp", "/", "spec.yml">>
  /\ contains(fn.returned, <<"/", "tmp", "/", "spec.yml">>)

Prompts == {"Prompt: project directory", "Prompt: downloadPath"}

\* slot s has issued a call or started on the download directory
AtWork(s) == s.ncalls > 0 \/ s.pc = "access"

\* the handler of slot i returns a prompt in this step
ReturnsPrompt(i) ==
  /\ inv[i].pc = "idle"
  /\ inv'[i].pc = "returned"
  /\ inv'[i].resp.text \in Prompts

DownloadOps == {"download-traffic", "onResponse"}

\* where the file goes, given the resolved download directory
FileUnder(dir) ==
  IF ~fn.output_file.has \/ fn.output_file.val = << >>
    THEN dir \o <<"/">> \o fn.name \o <<".har">>
  ELSE IF fn.output_file.val[1] = "/" THEN fn.output_file.val
  ELSE dir \o <<"/">> \o fn.output_file.val

Unquoted(raw) ==
  CASE raw \in {<< >>, <<" ">>} -> << >>
    [] raw \in {<<"'", "/", "d", "'">>, <<" ", "/", "d", " ">>} -> <<"/", "d">>
    [] raw = <<"\"", " ", "/", "d", "\"">> -> <<" ", "/", "d">>
    [] OTHER -> raw

Outstanding(s) ==
  s.pc \notin {"idle", "returned", "thrown", "readFile", "access"}

\* which of its calls an invocation is awaiting
Position(s) ==
  CASE s.tool = "get-scan-status" /\ ~s.args.scan_id /\ s.pc = "getScanStatus" -> 2
    [] s.tool = "delete-target" /\ s.pc = "deleteTarget" -> 2
    [] s.tool = "authenticate" /\ s.pc = "createToken" -> 2
    [] s.tool = "authenticate" /\ s.pc = "verifyNew" -> 3
    [] OTHER -> 1

\* C19: an invocation issues at most one subprocess or HTTP request per
\* step and only when it has none outstanding: while it awaits its k-th
\* call exactly k calls have been issued, so the k-1 before it have
\* settled (get-scan-status by target name and delete-target make two
\* calls, authenticate with create_new three).  An invocation that has
\* returned or thrown awaits nothing; the only call outstanding after its
\* invocation returned is a scan launch.
C19_OneCallAtATime ==
  [][/\ \A i \in Slots :
          LET before == IF inv[i].pc = "idle" THEN 0 ELSE inv[i].ncalls IN
          /\ inv'[i].ncalls \in {0, before, before + 1}
          /\ inv'[i].ncalls = before + 1 => Outstanding(inv'[i])
          /\ Outstanding(inv'[i]) => inv'[i].ncalls = Position(inv'[i])
          /\ (Outstanding(inv[i]) /\ inv'[i].pc # inv[i].pc /\ Outstanding(inv'[i])) =>
               Position(inv'[i]) = Position(inv[i]) + 1
     /\ \A l \in LaunchIds :
          launches'[l].state = "running" =>
            /\ launches'[l].handler = "returned"
            /\ \A i \in Slots :
                 inv'[i].launch = l => ~Outstanding(inv'[i])]_vars

\* authenticate with create_new awaits its third call while an earlier
\* scan launch is still running
C19_Witness ==
  /\ \E i \in Slots :
       /\ inv[i].tool = "authenticate"
       /\ inv[i].pc = "verifyNew"
       /\ inv[i].ncalls = 3
  /\ \E l \in LaunchIds : launches[l].state = "running"

\* the tools are registered (connectServer called or settled)
Registered == boot \in {"connect", "running"}

\* no tool has run and nothing is queued
NothingServed ==
  /\ \A i \in Slots : inv[i] = IdleSlot
  /\ \A l \in LaunchIds : launches[l] = NoLaunch
  /\ callbacks = 0

\* C20: when the probe of the binary fails the process exits with status 1
\* without having registered a tool or connected the transport; an error
\* of the rest of the bootstrap (connecting the transport) ends in exit
\* status 1 as well; the tools are registered and the transport connected
\* only after the probe succeeded, requests are served only once the
\* transport is connected, and nothing happens after the exit.
C20_Bootstrap ==
  [][/\ boot = "missing" => boot' = "exit(1)"
     /\ (Registered' /\ ~Registered) => boot \in {"installed", "verify"}
     /\ boot' = "verify" => boot \in {"installed", "verify"}
     /\ (boot = "connect" /\ boot' # "connect") => boot' \in {"running", "exit(1)"}
     /\ boot' # "running" => NothingServed'
     /\ boot = "running" => boot' = "running"
     /\ boot = "exit(1)" => UNCHANGED vars]_vars

\* the process has exited although a valid token file was there to load
C20_Witness ==
  /\ boot = "exit(1)"
  /\ tokenFile.has
  /\ token = Null
  /\ NothingServed

\* C21: getProjectByName fails with a "Project '<name>' not found" error
\* when the body has no results, and an HTTP 404 response of the lookup
\* ends in that not-found error as well.
C21_NotFound ==
  (/\ fn.op = "getProjectByName"
   /\ \/ fn.http.kind = "data" /\ fn.http.data.results = << >>
      \/ fn.http.kind = "status" /\ fn.http.status = "404") =>
    /\ fn.result.threw
    /\ contains(fn.result.error.message,
                <<"Project '", fn.projectName[1], "' not found">>)

\* the half of C21 that the program keeps: an empty result set, or a body
\* without results, is reported as not found
C21_EmptyIsNotFound ==
  (/\ fn.op = "getProjectByName"
   /\ fn.http.kind = "data" /\ fn.http.data.results = << >>) =>
    /\ fn.result.threw
    /\ contains(fn.result.error.message,
                <<"Project '", fn.projectName[1], "' not found">>)

\* the class of a CLI failure, by the first signature its output matches
FailureClass(cli) ==
  IF \E k \in 1..Len(cli) : cli[k] = "0 paths discovered" THEN "no endpoints"
  ELSE IF \E k \in 1..Len(cli) :
            cli[k] \in {"read-only file system", "permission denied",
                        "no such file or directory"} THEN "file system"
  ELSE IF \E k \in 1..Len(cli) : cli[k] = "maxBuffer length exceeded"
    THEN "too large"
  ELSE "other"

\* the guidance of a class is in the text: in the service's words or in the
\* handler's
Guidance(class, text) ==
  CASE class = "no endpoints" ->
         \E k \in 1..Len(text) :
           text[k] \in {"No API endpoints found in [", "No API endpoints found in "}
    [] class = "file system" ->
         \E k \in 1..Len(text) : text[k] = "File system error: Unable to write to "
    [] class = "too large" ->
         \E k \in 1..Len(text) :
           text[k] \in {OutputTooLarge[1],
                        "The API discovery output was too large to process."}
    [] OTHER -> FALSE

\* C22: discoverApi turns a failed CLI run into exactly one of the three
\* guidance errors, chosen by the signature in the CLI's message, and
\* raises an error that matches no signature with its message kept; the
\* discover-api tool reports to the caller the guidance the service chose,
\* and for an unclassified error its message.
C22_GuidanceReported ==
  fn.op = "discoverApiFails" =>
    LET class == FailureClass(fn.cli) IN
    /\ \A c \in {"no endpoints", "file system", "too large"} :
         Guidance(c, fn.error.message) <=> c = class
    /\ class = "other" => contains(fn.error.message, fn.cliError.message)
    /\ fn.resp.isError
    /\ \A c \in {"no endpoints", "file system", "too large"} :
         Guidance(c, fn.resp.text) <=> c = class
    /\ class = "other" => contains(fn.resp.text, fn.cliError.message)

TemplateOps ==
  {"createNucleiTemplate", "create-nuclei-template", "assignNucleiTemplate"}

\* the parameter is missing, empty or only whitespace
Blank(o) == ~o.has \/ \A k \in 1..Len(o.val) : o.val[k] \in Whitespace

\* C23: createNucleiTemplate and the create-nuclei-template tool given a
\* blank name or a blank project identifier, and assignNucleiTemplate
\* given a blank target or template identifier, end in an error and issue
\* no HTTP request; with both parameters present exactly one request is
\* issued.
C23_BlankRejectedBeforeRequest ==
  fn.op \in TemplateOps =>
    IF Blank(fn.first) \/ Blank(fn.second)
      THEN fn.result.threw /\ fn.result.requests = 0
      ELSE fn.result.requests = 1

\* assignNucleiTemplate with a whitespace-only template identifier
C23_Witness ==
  /\ fn.op = "assignNucleiTemplate"
  /\ fn.first = Some(<<"x">>)
  /\ fn.second = Some(<<" ">>)
  /\ fn.result.threw
  /\ fn.result.requests = 0

UploadOps == {"uploadNucleiTemplate", "upload-nuclei-template"}

\* the message says that the file was not found
ReportsFileNotFound(message) ==
  \E k \in 1..Len(message) :
    message[k] \in {"Nuclei template file not found at: ", "File not found: "}

\* the message says that the file is no template
ReportsNotATemplate(message) ==
  \E k \in 1..Len(message) :
    message[k] = "The file does not appear to be a valid nuclei template."

\* C24: the upload request is issued only when the file exists and its
\* content has both the id: and the info: marker; when the file is missing
\* no request is made and the error reports that the file was not found,
\* and when a marker is missing no request is made and the error reports
\* that the file is not a valid template.
C24_UploadOnlyAfterChecks ==
  fn.op \in UploadOps =>
    /\ fn.result.requests = 1 <=>
         (fn.file.exists /\ fn.file.markers = {"id:", "info:"})
    /\ ~fn.file.exists =>
         /\ fn.result.threw /\ fn.result.requests = 0
         /\ ReportsFileNotFound(fn.result.message)
    /\ (fn.file.exists /\ fn.file.markers # {"id:", "info:"}) =>
         /\ fn.result.threw /\ fn.result.requests = 0
         /\ ReportsNotATemplate(fn.result.message)

\* the half of C24 about requests: none unless both checks passed
C24_NoRequestBeforeChecks ==
  fn.op \in UploadOps =>
    (fn.result.requests = 1 <=>
       (fn.file.exists /\ fn.file.markers = {"id:", "info:"}))

StartScanArrives(i) ==
  /\ inv[i].pc = "idle"
  /\ inv'[i].pc # "idle"
  /\ inv'[i].tool = "start-scan"

\* the launches that this step queues
Queued ==
  {l \in LaunchIds :
     launches[l].state # "scheduled" /\ launches'[l].state = "scheduled"}

\* the launches whose command this step spawns
Dispatched ==
  {l \in LaunchIds :
     launches[l].state # "running" /\ launches'[l].state = "running"}

C26_Schedules ==
  \A i \in Slots :
    StartScanArrives(i) =>
      IF Truthy(token) /\ inv'[i].args.project
        THEN /\ Cardinality(Queued) = 1
             /\ inv'[i].launch \in Queued
             /\ Dispatched = {}
        ELSE /\ launches' = launches
             /\ inv'[i].launch = 0

C26_DispatchedOnce ==
  \A l \in LaunchIds :
    /\ l \in Queued => \E i \in Slots : StartScanArrives(i)
    /\ l \in Dispatched => launches[l].state = "scheduled"
    /\ launches[l].state = "scheduled" /\ launches'[l] # launches[l] =>
         l \in Dispatched

\* C26: every start-scan invocation that holds a credential and names a
\* project queues exactly one scan launch, a rejected invocation queues
\* none; a queued launch is spawned from its queued state only, is never
\* dropped or queued again before it is spawned, and under the event
\* loop's scheduling it is eventually spawned.
C26_LaunchedExactlyOnce ==
  /\ [][C26_Schedules /\ C26_DispatchedOnce]_vars
  /\ \A l \in LaunchIds :
       (launches[l].state = "scheduled") ~> (launches[l].state = "running")

\* a launch queued by an accepted start-scan has been spawned and has
\* settled, while the slot that queued it serves a rejected start-scan
C26_Witness ==
  \E l \in LaunchIds : \E i \in Slots :
    /\ launches[l].state = "logged"
    /\ inv[i].tool = "start-scan"
    /\ inv[i].resp.isError
    /\ inv[i].launch = 0

\* C27 (as stated): the scan-launch command spawned in the background
\* carries the credential that the service held when start-scan was
\* invoked, whatever authenticate did to the credential in between.
C27_CarriesCredentialOfInvocation ==
  \A l \in LaunchIds :
    launches[l].state = "running" => launches[l].tok = launches[l].held

\* what does hold: the command carries the credential held at the moment
\* the timer fires
C27_CarriesCredentialOfDispatch ==
  [][\A l \in Dispatched : launches'[l].tok = token]_vars

\* authenticate invocation i rejects the token it had set and clears it
Rejects(i) ==
  /\ Verifying(i)
  /\ inv'[i].pc = "returned"
  /\ inv'[i].resp.isError
  /\ token' = Null

\* invocation j of another tool passed its credential check with a token
\* whose verification was still awaited, and issued its call with it
UsedUnverified(j) ==
  /\ inv[j].tool \notin {"none", "authenticate"}
  /\ inv[j].unverified
  /\ inv[j].cred
  /\ inv[j].ncalls > 0

\* C28 (as stated): authenticate sets, verifies and on failure clears a
\* token atomically: when authenticate rejects and clears a token, no
\* invocation of another tool has passed its credential check with that
\* token or issued a call carrying it.
C28_AuthenticateAtomic ==
  [][\A i \in DOMAIN inv :
       Rejects(i) => \A j \in DOMAIN inv \ {i} : ~UsedUnverified(j)]_vars

\* what does hold: no tool passes its credential check while no credential
\* is set at all
C28_NoCallWithoutCredential ==
  \A j \in DOMAIN inv :
    inv[j].tool = "list-scans" /\ inv[j].ncalls > 0 => inv[j].cred

\* the verification of the token that authenticate invocation i had set
\* fails in this step
VerificationFails(i) ==
  /\ Verifying(i)
  /\ inv'[i].pc = "returned"
  /\ inv'[i].resp.isError

\* C29 (as stated): an authenticate(token) invocation whose verification
\* fails leaves no credential in the process and none on disk, whatever
\* credential was held before the call.
C29_NoCredentialLeft ==
  [][\A i \in Slots :
       VerificationFails(i) => ~token'.has /\ ~tokenFile'.has]_vars

\* C29 (amended): an authenticate(token) invocation whose verification
\* fails leaves no credential in the process, whatever credential was held
\* before; it leaves none on disk when the token directory is writable, and
\* otherwise the token file stays as it was.
C29_NoCredentialLeftIfWritable ==
  [][\A i \in Slots :
       VerificationFails(i) =>
         /\ ~token'.has
         /\ IF fsWritable THEN ~tokenFile'.has ELSE tokenFile' = tokenFile]_vars

\* authenticate(token) was called while a credential was held, its
\* verification failed, and neither the process nor the disk holds one
C29_Witness ==
  \E i \in Slots :
    /\ inv[i].tool = "authenticate"
    /\ inv[i].args.token.has
    /\ inv[i].cred
    /\ inv[i].pc = "returned"
    /\ inv[i].resp = Resp("The provided token is not valid", TRUE)
    /\ token = Null
    /\ tokenFile = Null

\* an authenticate invocation is between its first await and its return
AuthenticateInProgress ==
  \E i \in Slots :
    inv[i].tool = "authenticate" /\ inv[i].pc \notin {"idle", "returned"}

====
